---- MODULE Spec2Model ----
(***************************************************************************)
(* Model of the risk pipeline of geo-change-risk: the scoring engine       *)
(* (georisk/risk/scoring.py), the change classification and serialisation  *)
(* (georisk/raster/change.py) and the proximity search                     *)
(* (georisk/risk/proximity.py), under src/src/pipeline.                    *)
(*                                                                         *)
(* Units.  The code works on Python floats; the model uses scaled          *)
(* integers:                                                               *)
(*   distances, areas, elevations, slopes : whole metres, m2, degrees      *)
(*   ndvi deltas                          : hundredths   (-0.35 is -35)    *)
(*   aspects                              : tenths of a degree (157.5 is   *)
(*                                          1575)                          *)
(*   multipliers (land cover, landslide,  : hundredths   (0.85 is 85)      *)
(*     criticality)                                                        *)
(*   directional slope modifiers          : ten-thousandths (1.5 is 15000) *)
(* Optional values (Python None) are the empty sequence; a present value v *)
(* is <<v>>.  A Python object is a record of its attributes, so an         *)
(* attribute that was never set is a field that is not in DOMAIN.          *)
(* The human-readable "details" string of a ScoringFactor is not modelled. *)
(***************************************************************************)
EXTENDS Integers, Sequences, FiniteSets, TLC

VARIABLES
    heap,       \* the nested dicts of the module-level DEFAULT_SCORING, by key
    scorers,    \* the RiskScorer instances constructed so far
    change,     \* the ChangePolygon handed to the scorer
    proximity,  \* the ProximityResult handed to the scorer
    op,         \* the method that ran last
    arg,        \* its argument, for the single-factor methods
    result      \* what it returned or raised

vars == <<heap, scorers, change, proximity, op, arg, result>>

None == <<>>
Some(v) == <<v>>
Val(x) == x[1]

Min(a, b) == IF a <= b THEN a ELSE b
Max(a, b) == IF a >= b THEN a ELSE b
Abs(a) == IF a < 0 THEN -a ELSE a

RECURSIVE SumPoints(_)
SumPoints(fs) == IF fs = <<>> THEN 0 ELSE Head(fs).points + SumPoints(Tail(fs))

\* dict.get(key, default)
Get(d, k, default) == IF k \in DOMAIN d THEN d[k] ELSE default

\* The least index of a set of indices of a sequence, 0 when the set is
\* empty: where a "for x in seq: if P(x): return" loop of the scorer stops.
FirstIndex(I) ==
    IF I = {} THEN 0 ELSE CHOOSE i \in I : \A j \in I : i <= j

(***************************************************************************)
(* The configuration: DEFAULT_SCORING.                                     *)
(***************************************************************************)
DEFAULT_SCORING == [
    distance |-> [
        max_points |-> 28,
        thresholds |-> <<
            [distance_m |-> 100,  points |-> 28, reason_code |-> "DISTANCE_LT_100M"],
            [distance_m |-> 500,  points |-> 21, reason_code |-> "DISTANCE_LT_500M"],
            [distance_m |-> 1000, points |-> 14, reason_code |-> "DISTANCE_LT_1KM"],
            [distance_m |-> 2500, points |-> 7,  reason_code |-> "DISTANCE_LT_2.5KM"] >>],
    ndvi_drop |-> [
        max_points |-> 25,
        thresholds |-> <<
            [delta |-> -50, points |-> 25, reason_code |-> "NDVI_DROP_SEVERE"],
            [delta |-> -40, points |-> 20, reason_code |-> "NDVI_DROP_STRONG"],
            [delta |-> -30, points |-> 15, reason_code |-> "NDVI_DROP_MODERATE"],
            [delta |-> -20, points |-> 10, reason_code |-> "NDVI_DROP_MILD"] >>],
    area |-> [
        max_points |-> 15,
        thresholds |-> <<
            [area_m2 |-> 50000, points |-> 15, reason_code |-> "LARGE_AREA_GT_50000M2"],
            [area_m2 |-> 25000, points |-> 11, reason_code |-> "LARGE_AREA_GT_25000M2"],
            [area_m2 |-> 10000, points |-> 8,  reason_code |-> "AREA_GT_10000M2"],
            [area_m2 |-> 5000,  points |-> 4,  reason_code |-> "AREA_GT_5000M2"] >>],
    slope |-> [
        max_points |-> 10,
        thresholds |-> <<
            [slope_deg |-> 30, points |-> 10, reason_code |-> "SLOPE_GT_30DEG"],
            [slope_deg |-> 20, points |-> 7,  reason_code |-> "SLOPE_GT_20DEG"],
            [slope_deg |-> 15, points |-> 5,  reason_code |-> "SLOPE_GT_15DEG"],
            [slope_deg |-> 10, points |-> 3,  reason_code |-> "SLOPE_GT_10DEG"] >>],
    directional_slope |-> [
        max_points |-> 20,
        upslope_threshold_m |-> 5,
        downslope_threshold_m |-> -5,
        upslope_multiplier_base |-> 15000,
        upslope_multiplier_max |-> 25000,
        upslope_elev_scale |-> 100,
        downslope_multiplier_base |-> 9000,
        downslope_multiplier_min |-> 7000,
        downslope_elev_scale |-> 100],
    aspect |-> [
        max_points |-> 5,
        ranges |-> <<
            [min_deg |-> 1575, max_deg |-> 2025, points |-> 5, reason_code |-> "ASPECT_SOUTH"],
            [min_deg |-> 1350, max_deg |-> 1575, points |-> 4, reason_code |-> "ASPECT_SE"],
            [min_deg |-> 2025, max_deg |-> 2250, points |-> 4, reason_code |-> "ASPECT_SW"],
            [min_deg |-> 1125, max_deg |-> 1350, points |-> 2, reason_code |-> "ASPECT_EAST"],
            [min_deg |-> 2250, max_deg |-> 2475, points |-> 2, reason_code |-> "ASPECT_WEST"],
            [min_deg |-> 225,  max_deg |-> 675,  points |-> 1, reason_code |-> "ASPECT_NE"],
            [min_deg |-> 2925, max_deg |-> 3375, points |-> 1, reason_code |-> "ASPECT_NW"],
            [min_deg |-> 3375, max_deg |-> 3600, points |-> 0, reason_code |-> "ASPECT_NORTH"],
            [min_deg |-> 0,    max_deg |-> 225,  points |-> 0, reason_code |-> "ASPECT_NORTH"] >>],
    land_cover |-> [
        multipliers |-> [
            Forest |-> 100, Residential |-> 90, HerbaceousVegetation |-> 85,
            River |-> 80, PermanentCrop |-> 75, Pasture |-> 70, Industrial |-> 50,
            SeaLake |-> 40, AnnualCrop |-> 30, Highway |-> 25]],
    landslide |-> [
        multiplier |-> 180,
        upslope_boost |-> 50,
        min_slope_deg |-> 15,
        max_multiplier |-> 250],
    criticality |-> [
        max_points |-> 10,
        multipliers |-> (0 :> 50) @@ (1 :> 100) @@ (2 :> 150) @@ (3 :> 200)],
    risk_levels |-> <<
        [name |-> "Low",      min_score |-> 0,  max_score |-> 24],
        [name |-> "Medium",   min_score |-> 25, max_score |-> 49],
        [name |-> "High",     min_score |-> 50, max_score |-> 74],
        [name |-> "Critical", min_score |-> 75, max_score |-> 100] >>]

\* The keys of DEFAULT_SCORING whose values are dicts (every key but
\* risk_levels, whose value is a list).
FactorKeys == DOMAIN DEFAULT_SCORING \ {"risk_levels"}

(***************************************************************************)
(* Values.                                                                 *)
(***************************************************************************)
ScoringFactor(name, points, max_points, reason_code) ==
    [name |-> name, points |-> points, max_points |-> max_points,
     reason_code |-> reason_code]

RiskScore(score, level, factors) ==
    [score |-> score, level |-> level, factors |-> factors]

\* An exception leaving the method instead of a return value.
Raise(exception) == [raised |-> exception]
IsRaise(x) == "raised" \in DOMAIN x

\* str.upper() on the labels the scorer formats into reason codes.
Upper(s) ==
    CASE s = "Forest" -> "FOREST"
      [] s = "Residential" -> "RESIDENTIAL"
      [] s = "HerbaceousVegetation" -> "HERBACEOUSVEGETATION"
      [] s = "River" -> "RIVER"
      [] s = "PermanentCrop" -> "PERMANENTCROP"
      [] s = "Pasture" -> "PASTURE"
      [] s = "Industrial" -> "INDUSTRIAL"
      [] s = "SeaLake" -> "SEALAKE"
      [] s = "AnnualCrop" -> "ANNUALCROP"
      [] s = "Highway" -> "HIGHWAY"
      [] s = "Desert" -> "DESERT"
      [] s = "Low" -> "LOW"
      [] s = "Medium" -> "MEDIUM"
      [] s = "High" -> "HIGH"
      [] s = "Critical" -> "CRITICAL"
      [] OTHER -> s

\* The (integer, multiplier) pairs, within the range the default
\* configuration can produce before the criticality step (n <= 93), whose
\* product as an IEEE-754 double lies just below the integer that decimal
\* arithmetic gives: 90 * 0.7 is 62.99999999999999, 50 * 2.3 is
\* 114.99999999999999 and 90 * 2.3 is 206.99999999999997.
DoubleProductBelow == {<<90, 70>>, <<50, 230>>, <<90, 230>>}

\* int(n * multiplier) for an int n >= 0 and a float multiplier >= 0 given in
\* hundredths: the double product, truncated.
IntTimes(n, multiplier) ==
    IF <<n, multiplier>> \in DoubleProductBelow
    THEN (n * multiplier) \div 100 - 1
    ELSE (n * multiplier) \div 100

(***************************************************************************)
(* RiskScorer: the factor methods.  config is the scorer's self.config.    *)
(***************************************************************************)
\* score_distance with an inclusive comparison (distance_m <= threshold).
score_distance_inclusive(config, distance_m) ==
    LET cfg == config.distance
        ths == cfg.thresholds
        hit == FirstIndex({i \in DOMAIN ths :
                              distance_m <= ths[i].distance_m})
    IN  IF hit # 0
        THEN ScoringFactor("Distance", ths[hit].points, cfg.max_points,
                           ths[hit].reason_code)
        ELSE ScoringFactor("Distance", 0, cfg.max_points, "DISTANCE_FAR")

score_distance(config, distance_m) ==
    LET cfg == config.distance
        ths == cfg.thresholds
        \* threshold["distance_m"] raises KeyError on an entry without the key
        bad == FirstIndex({i \in DOMAIN ths :
                              "distance_m" \notin DOMAIN ths[i]})
        hit == FirstIndex({i \in DOMAIN ths :
                              /\ "distance_m" \in DOMAIN ths[i]
                              /\ distance_m < ths[i].distance_m})
    IN  IF bad # 0 /\ (hit = 0 \/ bad < hit)
        THEN Raise("KeyError")
        ELSE IF hit # 0
        THEN IF {"points", "reason_code"} \subseteq DOMAIN ths[hit]
             THEN ScoringFactor("Distance", ths[hit].points, cfg.max_points,
                                ths[hit].reason_code)
             ELSE Raise("KeyError")
        ELSE ScoringFactor("Distance", 0, cfg.max_points, "DISTANCE_FAR")

score_ndvi(config, ndvi_drop) ==
    LET cfg == config.ndvi_drop
        ths == cfg.thresholds
        hit == FirstIndex({i \in DOMAIN ths :
                              ndvi_drop <= ths[i].delta})
    IN  IF hit # 0
        THEN ScoringFactor("NDVI Drop", ths[hit].points, cfg.max_points,
                           ths[hit].reason_code)
        ELSE ScoringFactor("NDVI Drop", 0, cfg.max_points, "NDVI_DROP_MINIMAL")

\* score_area with a strict comparison (area_m2 > threshold).
score_area_strict(config, area_m2) ==
    LET cfg == config.area
        ths == cfg.thresholds
        hit == FirstIndex({i \in DOMAIN ths :
                              area_m2 > ths[i].area_m2})
    IN  IF hit # 0
        THEN ScoringFactor("Area", ths[hit].points, cfg.max_points,
                           ths[hit].reason_code)
        ELSE ScoringFactor("Area", 0, cfg.max_points, "AREA_SMALL")

score_area(config, area_m2) ==
    LET cfg == config.area
        ths == cfg.thresholds
        hit == FirstIndex({i \in DOMAIN ths :
                              area_m2 >= ths[i].area_m2})
    IN  IF hit # 0
        THEN ScoringFactor("Area", ths[hit].points, cfg.max_points,
                           ths[hit].reason_code)
        ELSE ScoringFactor("Area", 0, cfg.max_points, "AREA_SMALL")

\* A directional modifier that starts at the base multiplier at the
\* threshold itself: base at 5 m rising to max at the scale, and base at
\* -5 m falling to min at the scale.
directional_modifier_from_threshold(cfg, elevation_diff_m) ==
    IF elevation_diff_m > cfg.upslope_threshold_m
    THEN cfg.upslope_multiplier_base
           + Min(cfg.upslope_multiplier_max - cfg.upslope_multiplier_base,
                 ((cfg.upslope_multiplier_max - cfg.upslope_multiplier_base)
                    * (elevation_diff_m - cfg.upslope_threshold_m))
                 \div (cfg.upslope_elev_scale - cfg.upslope_threshold_m))
    ELSE IF elevation_diff_m < cfg.downslope_threshold_m
    THEN cfg.downslope_multiplier_base
           - Min(cfg.downslope_multiplier_base - cfg.downslope_multiplier_min,
                 ((cfg.downslope_multiplier_base - cfg.downslope_multiplier_min)
                    * (Abs(elevation_diff_m) + cfg.downslope_threshold_m))
                 \div (cfg.downslope_elev_scale + cfg.downslope_threshold_m))
    ELSE 10000

\* A directional modifier whose level band is open: a difference equal to a
\* threshold already counts as upslope or downslope.
directional_modifier_open_band(cfg, elevation_diff_m) ==
    IF elevation_diff_m >= cfg.upslope_threshold_m
    THEN cfg.upslope_multiplier_base
           + Min(cfg.upslope_multiplier_max - cfg.upslope_multiplier_base,
                 ((cfg.upslope_multiplier_max - cfg.upslope_multiplier_base)
                    * elevation_diff_m) \div cfg.upslope_elev_scale)
    ELSE IF elevation_diff_m <= cfg.downslope_threshold_m
    THEN cfg.downslope_multiplier_base
           - Min(cfg.downslope_multiplier_base - cfg.downslope_multiplier_min,
                 ((cfg.downslope_multiplier_base - cfg.downslope_multiplier_min)
                    * Abs(elevation_diff_m)) \div cfg.downslope_elev_scale)
    ELSE 10000

\* The directional modifier of _score_directional_slope, in ten-thousandths,
\* for an elevation difference that is present.
directional_modifier(cfg, elevation_diff_m) ==
    IF elevation_diff_m > cfg.upslope_threshold_m
    THEN cfg.upslope_multiplier_base
           + Min(cfg.upslope_multiplier_max - cfg.upslope_multiplier_base,
                 ((cfg.upslope_multiplier_max - cfg.upslope_multiplier_base)
                    * elevation_diff_m) \div cfg.upslope_elev_scale)
    ELSE IF elevation_diff_m < cfg.downslope_threshold_m
    THEN cfg.downslope_multiplier_base
           - Min(cfg.downslope_multiplier_base - cfg.downslope_multiplier_min,
                 ((cfg.downslope_multiplier_base - cfg.downslope_multiplier_min)
                    * Abs(elevation_diff_m)) \div cfg.downslope_elev_scale)
    ELSE 10000

direction_of(cfg, elevation_diff_m) ==
    IF elevation_diff_m > cfg.upslope_threshold_m THEN "UPSLOPE"
    ELSE IF elevation_diff_m < cfg.downslope_threshold_m THEN "DOWNSLOPE"
    ELSE "LEVEL"

\* score_directional_slope without the cap at max_points.
score_directional_slope_uncapped(config, slope_deg, elevation_diff_m) ==
    LET cfg == config.directional_slope
        max_pts == cfg.max_points
        ths == config.slope.thresholds
        hit == FirstIndex({i \in DOMAIN ths :
                              slope_deg >= ths[i].slope_deg})
        base_points == IF hit # 0 THEN ths[hit].points ELSE 0
        base_reason == IF hit # 0 THEN ths[hit].reason_code ELSE "SLOPE_FLAT"
    IN  IF elevation_diff_m = None
        THEN ScoringFactor("Slope", base_points, max_pts, base_reason)
        ELSE LET modifier == directional_modifier(cfg, Val(elevation_diff_m))
                 final_points == (base_points * modifier) \div 10000
             IN  ScoringFactor("Slope + Direction", final_points, max_pts,
                               "SLOPE_" \o direction_of(cfg, Val(elevation_diff_m)))

score_directional_slope(config, slope_deg, elevation_diff_m) ==
    LET cfg == config.directional_slope
        max_pts == cfg.max_points
        ths == config.slope.thresholds
        hit == FirstIndex({i \in DOMAIN ths :
                              slope_deg >= ths[i].slope_deg})
        base_points == IF hit # 0 THEN ths[hit].points ELSE 0
        base_reason == IF hit # 0 THEN ths[hit].reason_code ELSE "SLOPE_FLAT"
    IN  IF elevation_diff_m = None
        THEN ScoringFactor("Slope", base_points, max_pts, base_reason)
        ELSE LET modifier == directional_modifier(cfg, Val(elevation_diff_m))
                 final_points == (base_points * modifier) \div 10000
             IN  ScoringFactor("Slope + Direction", Min(max_pts, final_points),
                               max_pts,
                               "SLOPE_" \o direction_of(cfg, Val(elevation_diff_m)))

\* score_aspect with closed ranges (min_deg <= aspect <= max_deg).
score_aspect_closed(config, aspect_degrees) ==
    LET cfg == config.aspect
        aspect == aspect_degrees % 3600
        hit == FirstIndex({i \in DOMAIN cfg.ranges :
                              /\ cfg.ranges[i].min_deg <= aspect
                              /\ aspect <= cfg.ranges[i].max_deg})
    IN  IF hit # 0
        THEN ScoringFactor("Aspect", cfg.ranges[hit].points, cfg.max_points,
                           cfg.ranges[hit].reason_code)
        ELSE ScoringFactor("Aspect", 0, cfg.max_points, "ASPECT_OTHER")

score_aspect(config, aspect_degrees) ==
    LET cfg == config.aspect
        aspect == aspect_degrees % 3600
        hit == FirstIndex({i \in DOMAIN cfg.ranges :
                              /\ cfg.ranges[i].min_deg <= aspect
                              /\ aspect < cfg.ranges[i].max_deg})
    IN  IF hit # 0
        THEN ScoringFactor("Aspect", cfg.ranges[hit].points, cfg.max_points,
                           cfg.ranges[hit].reason_code)
        ELSE ScoringFactor("Aspect", 0, cfg.max_points, "ASPECT_OTHER")

get_land_cover_multiplier(config, land_cover_class) ==
    IF land_cover_class = None
    THEN 100
    ELSE Get(config.land_cover.multipliers, Val(land_cover_class), 100)

\* score_landslide whose floor is exclusive (slope <= min_slope_deg is low).
score_landslide_strict_floor(config, ch, elevation_diff_m) ==
    IF ch.change_type # "LandslideDebris"
    THEN None
    ELSE LET ls_config == config.landslide
             slope == IF ch.slope_degree_mean = None
                      THEN 0 ELSE Val(ch.slope_degree_mean)
         IN  IF slope <= ls_config.min_slope_deg
             THEN Some(ScoringFactor("Landslide Detection", 0, 0,
                                     "LANDSLIDE_LOW_SLOPE"))
             ELSE Some(ScoringFactor(
                      "Landslide Detection", 0, 0,
                      IF elevation_diff_m # None /\ Val(elevation_diff_m) > 5
                      THEN "LANDSLIDE_UPSLOPE" ELSE "LANDSLIDE_DETECTED"))

\* None for a polygon that is not LandslideDebris, else the factor; its
\* points are filled in by the caller.
score_landslide(config, ch, elevation_diff_m) ==
    IF ch.change_type # "LandslideDebris"
    THEN None
    ELSE LET ls_config == config.landslide
             \* change.slope_degree_mean or 0.0
             slope == IF ch.slope_degree_mean = None
                      THEN 0 ELSE Val(ch.slope_degree_mean)
         IN  IF slope < ls_config.min_slope_deg
             THEN Some(ScoringFactor("Landslide Detection", 0, 0,
                                     "LANDSLIDE_LOW_SLOPE"))
             ELSE Some(ScoringFactor(
                      "Landslide Detection", 0, 0,
                      IF elevation_diff_m # None /\ Val(elevation_diff_m) > 5
                      THEN "LANDSLIDE_UPSLOPE" ELSE "LANDSLIDE_DETECTED"))

\* get_risk_level with levels that exclude their max_score.
get_risk_level_half_open(config, score) ==
    LET hit == FirstIndex({i \in DOMAIN config.risk_levels :
                              /\ config.risk_levels[i].min_score <= score
                              /\ score < config.risk_levels[i].max_score})
    IN  IF hit # 0 THEN config.risk_levels[hit].name ELSE "Unknown"

get_risk_level(config, score) ==
    LET hit == FirstIndex({i \in DOMAIN config.risk_levels :
                              /\ config.risk_levels[i].min_score <= score
                              /\ score <= config.risk_levels[i].max_score})
    IN  IF hit # 0 THEN config.risk_levels[hit].name ELSE "Unknown"

(***************************************************************************)
(* RiskScorer.calculate_risk_score                                         *)
(***************************************************************************)
\* The landslide multiplier the caller recomputes for a factor that is not
\* LANDSLIDE_LOW_SLOPE.
landslide_multiplier(config, elevation_diff_m) ==
    LET ls_config == config.landslide
    IN  IF elevation_diff_m # None /\ Val(elevation_diff_m) > 5
        THEN Min(ls_config.multiplier + ls_config.upslope_boost,
                 ls_config.max_multiplier)
        ELSE ls_config.multiplier

\* additive_factors that zeroes, instead of omitting, the slope factor of a
\* polygon without a slope.
additive_factors_zeroed(config, ch, px) ==
    LET f3 == << score_distance(config, px.distance_meters),
                 score_ndvi(config, ch.ndvi_drop_mean),
                 score_area(config, ch.area_sq_meters) >>
        f4 == IF ch.slope_degree_mean # None
              THEN Append(f3, score_directional_slope(
                                  config, Val(ch.slope_degree_mean),
                                  px.elevation_diff_m))
              ELSE Append(f3, ScoringFactor("Slope", 0,
                                            config.directional_slope.max_points,
                                            "SLOPE_FLAT"))
    IN  IF ch.aspect_degrees # None
        THEN Append(f4, score_aspect(config, Val(ch.aspect_degrees)))
        ELSE f4

\* The additive phase: Distance, NDVI Drop, Area, then the slope and aspect
\* factors when their inputs are present.
additive_factors(config, ch, px) ==
    LET f3 == << score_distance(config, px.distance_meters),
                 score_ndvi(config, ch.ndvi_drop_mean),
                 score_area(config, ch.area_sq_meters) >>
        f4 == IF ch.slope_degree_mean # None
              THEN Append(f3, score_directional_slope(
                                  config, Val(ch.slope_degree_mean),
                                  px.elevation_diff_m))
              ELSE f3
    IN  IF ch.aspect_degrees # None
        THEN Append(f4, score_aspect(config, Val(ch.aspect_degrees)))
        ELSE f4

\* land_cover_step that records no factor for a class whose multiplier is 1.0.
land_cover_step_silent_baseline(config, ch, factors, total_score) ==
    LET lc_multiplier == get_land_cover_multiplier(config, ch.land_cover_class)
    IN  IF lc_multiplier # 100
        THEN << Append(factors, ScoringFactor(
                    "Land Cover",
                    IntTimes(total_score, lc_multiplier) - total_score, 0,
                    "LANDCOVER_" \o Upper(Val(ch.land_cover_class)))),
                IntTimes(total_score, lc_multiplier) >>
        ELSE << factors, total_score >>

\* The land-cover step on the running total: <<factors, total_score>>.
land_cover_step(config, ch, factors, total_score) ==
    LET lc_multiplier == get_land_cover_multiplier(config, ch.land_cover_class)
    IN  IF lc_multiplier # 100
        THEN << Append(factors, ScoringFactor(
                    "Land Cover",
                    IntTimes(total_score, lc_multiplier) - total_score, 0,
                    "LANDCOVER_" \o Upper(Val(ch.land_cover_class)))),
                IntTimes(total_score, lc_multiplier) >>
        ELSE IF ch.land_cover_class # None
        THEN << Append(factors, ScoringFactor(
                    "Land Cover", 0, 0,
                    "LANDCOVER_" \o Upper(Val(ch.land_cover_class)))),
                total_score >>
        ELSE << factors, total_score >>

\* landslide_step that records the factor and its delta but leaves the running
\* total as it was.
landslide_step_factor_only(config, ch, px, factors, total_score) ==
    LET ls_factor == score_landslide(config, ch, px.elevation_diff_m)
    IN  IF ls_factor = None
        THEN << factors, total_score >>
        ELSE IF Val(ls_factor).reason_code # "LANDSLIDE_LOW_SLOPE"
        THEN LET ls_mult == landslide_multiplier(config, px.elevation_diff_m)
             IN  << Append(factors,
                           [Val(ls_factor) EXCEPT
                               !.points = IntTimes(total_score, ls_mult)
                                            - total_score]),
                    total_score >>
        ELSE << Append(factors, Val(ls_factor)), total_score >>

\* The landslide step on the running total: <<factors, total_score>>.
landslide_step(config, ch, px, factors, total_score) ==
    LET ls_factor == score_landslide(config, ch, px.elevation_diff_m)
    IN  IF ls_factor = None
        THEN << factors, total_score >>
        ELSE IF Val(ls_factor).reason_code # "LANDSLIDE_LOW_SLOPE"
        THEN LET ls_mult == landslide_multiplier(config, px.elevation_diff_m)
             IN  << Append(factors,
                           [Val(ls_factor) EXCEPT
                               !.points = IntTimes(total_score, ls_mult)
                                            - total_score]),
                    IntTimes(total_score, ls_mult) >>
        ELSE << Append(factors, Val(ls_factor)), total_score >>

\* criticality_step that looks the tier up one key too high, as for an
\* enumeration counted from 1: tier 3 then falls back to the default 1.0.
criticality_step_off_by_one(config, px, factors, total_score) ==
    LET multiplier == Get(config.criticality.multipliers, px.criticality + 1, 100)
        adjusted_score == IF total_score * multiplier >= 100 * 100
                          THEN 100
                          ELSE IntTimes(total_score, multiplier)
    IN  RiskScore(adjusted_score, get_risk_level(config, adjusted_score),
                  Append(factors, ScoringFactor(
                      "Criticality", 0, config.criticality.max_points,
                      "CRITICALITY_" \o Upper(px.criticality_name))))

\* criticality_step that adds the Criticality factor's points instead of
\* multiplying, so that a multiplier below 1 changes nothing.
criticality_step_additive(config, px, factors, total_score) ==
    LET multiplier == Get(config.criticality.multipliers, px.criticality, 100)
        points == IF multiplier > 100
                  THEN IntTimes(total_score, multiplier - 100) ELSE 0
        adjusted_score == Min(100, total_score + points)
    IN  RiskScore(adjusted_score, get_risk_level(config, adjusted_score),
                  Append(factors, ScoringFactor(
                      "Criticality", points, config.criticality.max_points,
                      "CRITICALITY_" \o Upper(px.criticality_name))))

\* The criticality step and the result.
criticality_step(config, px, factors, total_score) ==
    LET multiplier == Get(config.criticality.multipliers, px.criticality, 100)
        \* int(min(100, total_score * multiplier))
        adjusted_score == IF total_score * multiplier >= 100 * 100
                          THEN 100
                          ELSE IntTimes(total_score, multiplier)
        crit_factor == ScoringFactor(
            "Criticality",
            IF multiplier > 100
            THEN IntTimes(total_score, multiplier - 100) ELSE 0,
            config.criticality.max_points,
            "CRITICALITY_" \o Upper(px.criticality_name))
    IN  RiskScore(adjusted_score, get_risk_level(config, adjusted_score),
                  Append(factors, crit_factor))

\* before_criticality with the landslide step ahead of the land-cover step.
before_criticality_landslide_first(config, ch, px) ==
    LET f5 == additive_factors(config, ch, px)
        ls == landslide_step(config, ch, px, f5, SumPoints(f5))
    IN  land_cover_step(config, ch, ls[1], ls[2])

\* <<factors, total_score>> when the code reaches the criticality step, for
\* a change that has the land_cover_class attribute.
before_criticality(config, ch, px) ==
    LET f5 == additive_factors(config, ch, px)
        lc == land_cover_step(config, ch, f5, SumPoints(f5))
    IN  landslide_step(config, ch, px, lc[1], lc[2])

calculate_risk_score(config, ch, px) ==
    IF IsRaise(score_distance(config, px.distance_meters))
    THEN score_distance(config, px.distance_meters)
    ELSE IF "land_cover_class" \notin DOMAIN ch
    THEN Raise("AttributeError")   \* change.land_cover_class
    ELSE LET bc == before_criticality(config, ch, px)
         IN  criticality_step(config, px, bc[1], bc[2])

(***************************************************************************)
(* RiskScorer construction.  DEFAULT_SCORING.copy() is a shallow copy: the *)
(* new top-level dict holds, under every factor key, the very dict object  *)
(* DEFAULT_SCORING holds.  heap[k] is that object's current content; a     *)
(* scorer's config maps a factor key to the reference (the key) and        *)
(* risk_levels to the list itself, which is only ever rebound.             *)
(***************************************************************************)
shallow_copy_of_default ==
    [k \in DOMAIN DEFAULT_SCORING |->
        IF k \in FactorKeys THEN k ELSE DEFAULT_SCORING[k]]

\* The configuration a scorer reads through its references.
Config(scorer, h) ==
    [k \in DOMAIN scorer.config |->
        IF k \in FactorKeys THEN h[scorer.config[k]] ELSE scorer.config[k]]

\* dict.update(settings): the keys of settings overwrite, the others stay.
Update(d, settings) ==
    [k \in DOMAIN d \cup DOMAIN settings |->
        IF k \in DOMAIN settings THEN settings[k] ELSE d[k]]

\* _merge_config on a scorer whose config is cfg: <<cfg', heap'>>.
merge_config(cfg, h, config) ==
    LET sf == IF "scoring_factors" \in DOMAIN config
              THEN config.scoring_factors ELSE <<>>
        \* self.config[factor].update(settings) writes the object referred to
        h2 == [o \in DOMAIN h |->
                 IF \E f \in DOMAIN sf : f \in DOMAIN cfg /\ cfg[f] = o
                 THEN Update(h[o], sf[CHOOSE f \in DOMAIN sf :
                                         f \in DOMAIN cfg /\ cfg[f] = o])
                 ELSE h[o]]
        cfg2 == IF "risk_levels" \in DOMAIN config
                THEN [cfg EXCEPT !.risk_levels = config.risk_levels]
                ELSE cfg
    IN  << cfg2, h2 >>

\* RiskScorer.__init__(config): <<scorer, heap'>>.  config is None or Some.
RiskScorer(config, h) ==
    IF config = None
    THEN << [config |-> shallow_copy_of_default], h >>
    ELSE LET m == merge_config(shallow_copy_of_default, h, Val(config))
         IN  << [config |-> m[1]], m[2] >>

(***************************************************************************)
(* The inputs.                                                             *)
(***************************************************************************)
\* ChangePolygon as its dataclass constructs it: the fields the scorer
\* reads.  The dataclass has no land_cover_class field.
ChangePolygon(area_sq_meters, ndvi_drop_mean, change_type, slope_degree_mean, aspect_degrees) ==
    [area_sq_meters |-> area_sq_meters, ndvi_drop_mean |-> ndvi_drop_mean,
     change_type |-> change_type, slope_degree_mean |-> slope_degree_mean,
     aspect_degrees |-> aspect_degrees]

\* change.land_cover_class = cls, the attribute the classification stage
\* attaches to a polygon it classified.
attach_land_cover(ch, cls) ==
    [k \in DOMAIN ch \cup {"land_cover_class"} |->
        IF k = "land_cover_class" THEN cls ELSE ch[k]]

CriticalityNames == (0 :> "Low") @@ (1 :> "Medium") @@ (2 :> "High") @@ (3 :> "Critical")

ProximityResult(criticality, distance_meters, elevation_diff_m) ==
    [criticality |-> criticality,
     criticality_name |-> CriticalityNames[criticality],
     distance_meters |-> distance_meters,
     elevation_diff_m |-> elevation_diff_m]

Areas == {100, 15000, 50000}
NdviDrops == {-50, -35, -5}
ChangeTypes == {"VegetationLoss", "LandslideDebris"}
SlopeMeans == {None, Some(5), Some(15), Some(16), Some(30)}
AspectValues == {None, Some(450), Some(1200), Some(1800)}
\* "Desert" stands for a label that is not in the multiplier table.
LandCoverValues == {None, Some("Forest"), Some("Pasture"), Some("Highway"),
                    Some("Desert")}
DistanceValues == {99, 100, 2500}
ElevationDiffs == {None, Some(-50), Some(5), Some(50), Some(100)}
Criticalities == DOMAIN CriticalityNames

UnclassifiedChanges ==
    {ChangePolygon(a, n, t, s, asp) :
        a \in Areas, n \in NdviDrops, t \in ChangeTypes, s \in SlopeMeans,
        asp \in AspectValues}

Changes ==
    UnclassifiedChanges
      \cup {attach_land_cover(ch, lc) :
               ch \in UnclassifiedChanges, lc \in LandCoverValues}

Proximities ==
    {ProximityResult(c, d, e) :
        c \in Criticalities, d \in DistanceValues, e \in ElevationDiffs}

InitialHeap == [k \in FactorKeys |-> DEFAULT_SCORING[k]]

(***************************************************************************)
(* Spec: the module-level calculate_risk_score(change, proximity), which   *)
(* constructs RiskScorer() and scores one change-asset pair with it.       *)
(***************************************************************************)
Init ==
    /\ heap = InitialHeap
    /\ scorers = <<>>
    /\ change \in Changes
    /\ proximity \in Proximities
    /\ op = "none"
    /\ arg = None
    /\ result = None

CalculateRiskScore ==
    /\ op = "none"
    /\ LET made == RiskScorer(None, heap)
       IN  /\ result' = Some(calculate_risk_score(Config(made[1], made[2]),
                                                  change, proximity))
           /\ heap' = made[2]
    /\ op' = "calculate_risk_score"
    /\ UNCHANGED <<scorers, change, proximity, arg>>

Next == CalculateRiskScore

Spec == Init /\ [][Next]_vars

(***************************************************************************)
(* SpecFactor: one call of a factor method of a default RiskScorer, on an  *)
(* argument drawn from a range that spans all its tiers.                   *)
(***************************************************************************)
MaxDistance == 3000
MaxAspect == 7300

MaxScoreArg == 150

MaxNdviDrop == 100
MaxSlope == 45
MaxElevationDiff == 120

DistanceArgs == 0..MaxDistance

\* Mean NDVI differences from -1.00 to 1.00.
NdviArgs == (-MaxNdviDrop)..MaxNdviDrop

\* Polygon areas at, just below and just above each area tier, and the
\* empty and a very large polygon.
AreaArgs ==
    {0, 100000} \cup
    UNION {{t - 1, t, t + 1} :
              t \in {DEFAULT_SCORING.area.thresholds[i].area_m2 :
                         i \in DOMAIN DEFAULT_SCORING.area.thresholds}}

SlopeArgs == 0..MaxSlope
ElevationDiffArgs ==
    {None} \cup {Some(e) : e \in (-MaxElevationDiff)..MaxElevationDiff}
AspectArgs == (-MaxAspect)..MaxAspect
ScoreArgs == (-MaxScoreArg)..MaxScoreArg

DefaultConfig == Config(RiskScorer(None, InitialHeap)[1], InitialHeap)

InitFactor ==
    /\ heap = InitialHeap
    /\ scorers = <<>>
    /\ change = attach_land_cover(
                    ChangePolygon(15000, -35, "VegetationLoss", Some(22),
                                  Some(1800)), None)
    /\ proximity = ProximityResult(1, 250, Some(50))
    /\ op = "none"
    /\ arg = None
    /\ result = None

ScoreDistance ==
    \E d \in DistanceArgs :
        /\ op = "none"
        /\ op' = "_score_distance"
        /\ arg' = Some(d)
        /\ result' = Some(score_distance(Config(RiskScorer(None, heap)[1], heap), d))
        /\ UNCHANGED <<heap, scorers, change, proximity>>

ScoreAspect ==
    \E a \in AspectArgs :
        /\ op = "none"
        /\ op' = "_score_aspect"
        /\ arg' = Some(a)
        /\ result' = Some(score_aspect(Config(RiskScorer(None, heap)[1], heap), a))
        /\ UNCHANGED <<heap, scorers, change, proximity>>

GetRiskLevel ==
    \E score \in ScoreArgs :
        /\ op = "none"
        /\ op' = "_get_risk_level"
        /\ arg' = Some(score)
        /\ result' = Some(get_risk_level(Config(RiskScorer(None, heap)[1], heap), score))
        /\ UNCHANGED <<heap, scorers, change, proximity>>

ScoreNdvi ==
    \E d \in NdviArgs :
        /\ op = "none"
        /\ op' = "_score_ndvi"
        /\ arg' = Some(d)
        /\ result' = Some(score_ndvi(Config(RiskScorer(None, heap)[1], heap), d))
        /\ UNCHANGED <<heap, scorers, change, proximity>>

ScoreArea ==
    \E a \in AreaArgs :
        /\ op = "none"
        /\ op' = "_score_area"
        /\ arg' = Some(a)
        /\ result' = Some(score_area(Config(RiskScorer(None, heap)[1], heap), a))
        /\ UNCHANGED <<heap, scorers, change, proximity>>

ScoreDirectionalSlope ==
    \E slope_deg \in SlopeArgs, elevation_diff_m \in ElevationDiffArgs :
        /\ op = "none"
        /\ op' = "_score_directional_slope"
        /\ arg' = Some([slope_deg |-> slope_deg,
                        elevation_diff_m |-> elevation_diff_m])
        /\ result' = Some(score_directional_slope(
                              Config(RiskScorer(None, heap)[1], heap),
                              slope_deg, elevation_diff_m))
        /\ UNCHANGED <<heap, scorers, change, proximity>>

NextFactor ==
    \/ ScoreDistance
    \/ ScoreAspect
    \/ GetRiskLevel
    \/ ScoreNdvi
    \/ ScoreArea
    \/ ScoreDirectionalSlope

SpecFactor == InitFactor /\ [][NextFactor]_vars

(***************************************************************************)
(* SpecConfig: scorers are constructed, with and without a configuration   *)
(* override, and then score.                                               *)
(***************************************************************************)
MaxScorers == 2

\* The override of TestCustomConfig.test_custom_config_changes_distance_scoring.
CustomDistance ==
    [scoring_factors |-> [distance |-> [
        max_points |-> 50,
        thresholds |-> <<[distance_m |-> 500, points |-> 50,
                          reason_code |-> "CUSTOM_CLOSE"]>>]]]

CustomRiskLevels ==
    [risk_levels |-> <<[name |-> "Low",  min_score |-> 0,  max_score |-> 49],
                       [name |-> "High", min_score |-> 50, max_score |-> 100]>>]

\* A malformed override: the threshold entry has no "distance_m" key.
MalformedDistance ==
    [scoring_factors |-> [distance |-> [
        thresholds |-> <<[points |-> 28, reason_code |-> "DISTANCE_LT_100M"]>>]]]

ConfigArgs == {None, Some(CustomDistance), Some(CustomRiskLevels),
               Some(MalformedDistance)}

InitConfig ==
    /\ heap = InitialHeap
    /\ scorers = <<>>
    /\ change = attach_land_cover(
                    ChangePolygon(1000, -10, "VegetationLoss", None, None), None)
    /\ proximity \in {ProximityResult(c, d, None) :
                        c \in {1, 3}, d \in {50, 250, 3000}}
    /\ op = "none"
    /\ arg = None
    /\ result = None

\* scorer = RiskScorer(config=c).  init_config records the argument the
\* instance was constructed with.
Construct ==
    \E c \in ConfigArgs :
        /\ Len(scorers) < MaxScorers
        /\ LET made == RiskScorer(c, heap)
           IN  /\ scorers' = Append(scorers,
                                    [config |-> made[1].config, init_config |-> c])
               /\ heap' = made[2]
        /\ op' = "__init__"
        /\ arg' = Some(Len(scorers) + 1)
        /\ result' = None
        /\ UNCHANGED <<change, proximity>>

\* scorers[i].calculate_risk_score(change, proximity)
ScorerCalculate ==
    \E i \in DOMAIN scorers :
        /\ op' = "calculate_risk_score"
        /\ arg' = Some(i)
        /\ result' = Some(calculate_risk_score(Config(scorers[i], heap),
                                               change, proximity))
        /\ UNCHANGED <<heap, scorers, change, proximity>>

NextConfig == Construct \/ ScorerCalculate

SpecConfig == InitConfig /\ [][NextConfig]_vars

(***************************************************************************)
(* raster/change.py: the NDVI classification of a change polygon and its   *)
(* serialisation for the API.                                              *)
(***************************************************************************)
\* classify_change whose moderate-loss bound is inclusive.
classify_change_inclusive(mean_ndvi_drop) ==
    IF mean_ndvi_drop < -40 THEN "VegetationLoss"
    ELSE IF mean_ndvi_drop <= -20 THEN "VegetationLoss"
    ELSE IF mean_ndvi_drop > 20 THEN "VegetationGain"
    ELSE "Unknown"

\* _classify_change(mean_ndvi_drop), the drop in hundredths.
classify_change(mean_ndvi_drop) ==
    IF mean_ndvi_drop < -40 THEN "VegetationLoss"        \* severe loss
    ELSE IF mean_ndvi_drop < -20 THEN "VegetationLoss"   \* moderate loss
    ELSE IF mean_ndvi_drop > 20 THEN "VegetationGain"
    ELSE "Unknown"

\* A value returned by a call that may instead raise.
Return(value) == [returned |-> value]

\* The call _classify_change(*args): the function takes exactly one
\* positional parameter, so a call with a second argument raises TypeError
\* before the body runs.
call_classify_change(args) ==
    IF Len(args) = 1
    THEN Return(classify_change(args[1]))
    ELSE Raise("TypeError")

\* The change_type_map of ChangePolygon.to_dict.
change_type_map ==
    ("Unknown" :> 0) @@ ("VegetationLoss" :> 1) @@ ("VegetationGain" :> 2)
      @@ ("UrbanExpansion" :> 3) @@ ("WaterChange" :> 4) @@ ("FireBurnScar" :> 5)
      @@ ("LandslideDebris" :> 6) @@ ("DroughtStress" :> 7)
      @@ ("AgriculturalChange" :> 8)

\* ChangePolygon.to_dict, for the fields the model carries.
to_dict(ch) ==
    [areaSqMeters |-> ch.area_sq_meters,
     ndviDropMean |-> ch.ndvi_drop_mean,
     changeType |-> Get(change_type_map, ch.change_type, 0),
     slopeDegreeMean |-> ch.slope_degree_mean,
     aspectDegrees |-> ch.aspect_degrees]

\* The EuroSAT classes the classifier can attach to a polygon.
LandCoverClasses == DOMAIN DEFAULT_SCORING.land_cover.multipliers

\* The labels a polygon's change_type can hold: those the pipeline assigns
\* and three that only an external caller could assign.
ChangeTypeLabels ==
    {"Unknown", "VegetationLoss", "VegetationGain", "FireBurnScar",
     "DroughtStress", "AgriculturalChange", "LandslideDebris",
     "UrbanExpansion", "WaterChange", "VegetationClearing"}

InitChange ==
    /\ heap = InitialHeap
    /\ scorers = <<>>
    /\ change \in {ChangePolygon(1000, -30, t, None, None) : t \in ChangeTypeLabels}
    /\ proximity = ProximityResult(1, 250, None)
    /\ op = "none"
    /\ arg = None
    /\ result = None

\* _classify_change(d), as _vectorize_changes calls it.
ClassifyChange ==
    \E d \in NdviArgs :
        /\ op = "none"
        /\ op' = "_classify_change"
        /\ arg' = Some(<<d>>)
        /\ result' = Some(call_classify_change(<<d>>))
        /\ UNCHANGED <<heap, scorers, change, proximity>>

\* _classify_change(d, land_cover_class), as the land-cover stage of the
\* command line calls it for a classified polygon.
ReclassifyChange ==
    \E d \in NdviArgs, lc \in LandCoverClasses :
        /\ op = "none"
        /\ op' = "_classify_change"
        /\ arg' = Some(<<d, Some(lc)>>)
        /\ result' = Some(call_classify_change(<<d, Some(lc)>>))
        /\ UNCHANGED <<heap, scorers, change, proximity>>

\* change.to_dict()
ToDict ==
    /\ op = "none"
    /\ op' = "to_dict"
    /\ arg' = None
    /\ result' = Some(to_dict(change))
    /\ UNCHANGED <<heap, scorers, change, proximity>>

NextChange == ClassifyChange \/ ReclassifyChange \/ ToDict

SpecChange == InitChange /\ [][NextChange]_vars

(***************************************************************************)
(* raster/change.py: detect_changes.  A raster is one row of pixels; an    *)
(* NDVI value is an integer in hundredths or None for NaN; a float that    *)
(* results from a division is the fraction <<numerator, denominator>>.     *)
(***************************************************************************)
\* config.processing defaults
processing == [ndvi_threshold |-> -20, min_area_m2 |-> 2500]

\* The ground area of one pixel of the projected raster (10 m resolution).
PixelAreaM2 == 100

Fraction(num, den) == IF num = 0 THEN <<0, 1>> ELSE <<num, den>>

\* The integer on the same side of every threshold of _classify_change as
\* the fraction num / den: num / den rounded away from zero.
away_from_zero(num, den) ==
    IF num >= 0 THEN (num + den - 1) \div den ELSE -((-num + den - 1) \div den)

RECURSIVE sum_values(_)
sum_values(values) ==
    IF values = <<>> THEN 0 ELSE Head(values) + sum_values(Tail(values))

\* The mean, minimum and maximum of a non-empty sequence of finite values.
mean_of(values) == Fraction(sum_values(values), Len(values))
min_of(values) ==
    CHOOSE v \in {values[i] : i \in DOMAIN values} :
        \A i \in DOMAIN values : v <= values[i]
max_of(values) ==
    CHOOSE v \in {values[i] : i \in DOMAIN values} :
        \A i \in DOMAIN values : v >= values[i]

\* after_ndvi.data - before_ndvi.data: NaN where either value is NaN.
ndvi_difference(before, after) ==
    [i \in DOMAIN before |->
        IF before[i] = None \/ after[i] = None
        THEN None
        ELSE Some(Val(after[i]) - Val(before[i]))]

\* xr.where(ndvi_diff < threshold, 1, 0): a comparison with NaN is false.
mask_of(ndvi_diff, threshold) ==
    [i \in DOMAIN ndvi_diff |->
        IF ndvi_diff[i] # None /\ Val(ndvi_diff[i]) < threshold THEN 1 ELSE 0]

\* features.shapes over mask == 1: the maximal runs <<first, last>> of
\* adjacent pixels of value 1.
shapes(change_mask) ==
    {r \in (DOMAIN change_mask) \X (DOMAIN change_mask) :
        /\ r[1] <= r[2]
        /\ \A i \in r[1]..r[2] : change_mask[i] = 1
        /\ (r[1] - 1) \in DOMAIN change_mask => change_mask[r[1] - 1] = 0
        /\ (r[2] + 1) \in DOMAIN change_mask => change_mask[r[2] + 1] = 0}

\* _extract_polygon_stats: the statistics of the finite differences inside
\* a polygon, zeros when there are none.
extract_polygon_stats(polygon, ndvi_diff) ==
    LET inside == SubSeq(ndvi_diff, polygon[1], polygon[2])
        finite == SelectSeq(inside, LAMBDA v : v # None)
        values == [i \in DOMAIN finite |-> Val(finite[i])]
    IN  IF Len(values) = 0
        THEN [mean |-> <<0, 1>>, max |-> 0, min |-> 0]
        ELSE [mean |-> mean_of(values), max |-> max_of(values),
              min |-> min_of(values)]

\* _vectorize_changes: one ChangePolygon per shape of at least min_area_m2,
\* in the order of the shapes.
vectorize_changes(change_mask, ndvi_diff, min_area_m2) ==
    LET kept == {r \in shapes(change_mask) :
                    ~((r[2] - r[1] + 1) * PixelAreaM2 < min_area_m2)}
        nth(k) == CHOOSE r \in kept :
                      Cardinality({q \in kept : q[1] < r[1]}) = k - 1
    IN  [k \in 1..Cardinality(kept) |->
            LET polygon == nth(k)
                ndvi_stats == extract_polygon_stats(polygon, ndvi_diff)
            IN  [geometry |-> polygon,
                 area_sq_meters |-> (polygon[2] - polygon[1] + 1) * PixelAreaM2,
                 ndvi_drop_mean |-> ndvi_stats.mean,
                 ndvi_drop_max |-> ndvi_stats.max,
                 change_type |->
                     classify_change(away_from_zero(ndvi_stats.mean[1],
                                                    ndvi_stats.mean[2]))]]

\* The run statistics of detect_changes.  valid_diff holds NaN where the
\* difference is NaN or 0; valid_diff.any() counts NaN as true, and the
\* reductions skip NaN and give NaN (None) when nothing is left.
run_stats(ndvi_diff, change_mask) ==
    LET valid_diff == [i \in DOMAIN ndvi_diff |->
                          IF ndvi_diff[i] = Some(0) THEN None ELSE ndvi_diff[i]]
        any == \E i \in DOMAIN valid_diff :
                   valid_diff[i] = None \/ Val(valid_diff[i]) # 0
        finite == SelectSeq(valid_diff, LAMBDA v : v # None)
        values == [i \in DOMAIN finite |-> Val(finite[i])]
        changed == sum_values(change_mask)
    IN  [mean_diff |-> IF ~any THEN Some(<<0, 1>>)
                       ELSE IF Len(values) = 0 THEN None
                       ELSE Some(mean_of(values)),
         min_diff |-> IF ~any THEN Some(<<0, 1>>)
                      ELSE IF Len(values) = 0 THEN None
                      ELSE Some(Fraction(min_of(values), 1)),
         max_diff |-> IF ~any THEN Some(<<0, 1>>)
                      ELSE IF Len(values) = 0 THEN None
                      ELSE Some(Fraction(max_of(values), 1)),
         changed_pixels |-> changed,
         total_pixels |-> Len(change_mask),
         change_percent |-> Fraction(changed * 100, Len(change_mask))]

\* change.detect_changes on a raster of at least one pixel.
detect_changes(before_ndvi, after_ndvi, threshold, min_area_m2) ==
    LET th == IF threshold # None THEN Val(threshold)
              ELSE processing.ndvi_threshold
        min_area == IF min_area_m2 # None THEN Val(min_area_m2)
                    ELSE processing.min_area_m2
        ndvi_diff == ndvi_difference(before_ndvi, after_ndvi)
        change_mask == mask_of(ndvi_diff, th)
    IN  [ndvi_diff |-> ndvi_diff,
         change_mask |-> change_mask,
         polygons |-> vectorize_changes(change_mask, ndvi_diff, min_area),
         threshold |-> th,
         stats |-> run_stats(ndvi_diff, change_mask)]

(***************************************************************************)
(* SpecDetect: one call of detect_changes on a pair of NDVI rasters of up  *)
(* to MaxPixels pixels.                                                    *)
(***************************************************************************)
MaxPixels == 3

BeforeValues == {None, Some(60)}
AfterValues == {None, Some(30), Some(35), Some(50), Some(60), Some(70)}
ThresholdArgs == {None, Some(-28)}
MinAreaArgs == {None, Some(150)}

InitDetect ==
    /\ heap = InitialHeap
    /\ scorers = <<>>
    /\ change = attach_land_cover(
                    ChangePolygon(15000, -35, "VegetationLoss", Some(22),
                                  Some(1800)), None)
    /\ proximity = ProximityResult(1, 250, None)
    /\ op = "none"
    /\ arg = None
    /\ result = None

DetectChanges ==
    \E n \in 1..MaxPixels :
      \E before_ndvi \in [1..n -> BeforeValues],
         after_ndvi \in [1..n -> AfterValues],
         threshold \in ThresholdArgs, min_area_m2 \in MinAreaArgs :
        /\ op = "none"
        /\ op' = "detect_changes"
        /\ arg' = Some([before_ndvi |-> before_ndvi, after_ndvi |-> after_ndvi,
                        threshold |-> threshold, min_area_m2 |-> min_area_m2])
        /\ result' = Some(detect_changes(before_ndvi, after_ndvi, threshold,
                                         min_area_m2))
        /\ UNCHANGED <<heap, scorers, change, proximity>>

NextDetect == DetectChanges

SpecDetect == InitDetect /\ [][NextDetect]_vars

(***************************************************************************)
(* risk/proximity.py: find_nearby_assets.                                  *)
(*                                                                         *)
(* Geometries.  WGS84 coordinates are integers in hundredths of a degree.  *)
(* A geometry is a horizontal extent [minx, maxx] on the parallel y (a     *)
(* point has minx = maxx); the change polygon and the assets the model     *)
(* measures lie on one parallel, so the distance between two geometries is *)
(* the gap between their extents.  The UTM transformer is modelled as the  *)
(* scaling that holds locally at the equator, MetresPerUnit metres for a   *)
(* hundredth of a degree.  An angle is kept as the pair of arguments of    *)
(* the atan2 that computes it.                                             *)
(***************************************************************************)
OVERHEAD_LINE_TYPES == {"TransmissionLine"}

GeometryTypes == {"Point", "LineString", "MultiLineString", "Polygon"}

MetresPerUnit == 1113

\* shapely.geometry.shape on a GeoJSON-like dict: raises on a dict that has
\* no known "type" or no coordinates.
shape(geojson) ==
    IF /\ "type" \in DOMAIN geojson
       /\ geojson.type \in GeometryTypes
       /\ "coordinates" \in DOMAIN geojson
    THEN [geom_type |-> geojson.type,
          minx |-> geojson.coordinates[1],
          maxx |-> geojson.coordinates[2],
          y |-> geojson.coordinates[3]]
    ELSE Raise("GeometryTypeError")

\* geometry.bounds: (minx, miny, maxx, maxy)
bounds(geom) == <<geom.minx, geom.y, geom.maxx, geom.y>>

\* geometry.centroid
centroid(geom) == [x |-> (geom.minx + geom.maxx) \div 2, y |-> geom.y]

\* shapely.ops.transform(to_projected.transform, geom); without a
\* transformer the geometry is used as it is.
transform(to_projected, geom) ==
    IF to_projected = None
    THEN geom
    ELSE [geom EXCEPT !.minx = @ * Val(to_projected),
                      !.maxx = @ * Val(to_projected),
                      !.y = @ * Val(to_projected)]

\* a.distance(b) for two extents on one parallel.
distance(a, b) == Max(0, Max(a.minx - b.maxx, b.minx - a.maxx))

\* terrain.sample_terrain_at_point: the elevation of the nearest DEM cell,
\* None when that cell holds NaN.  dem maps cell centres to an elevation, or
\* to None for NaN.  sel(method="nearest") sets no tolerance, so every point
\* has a nearest cell; halfway between two cells of the increasing x index
\* it takes the cell to the right.
sample_terrain_at_point(dem, point) ==
    LET nearest == {c \in DOMAIN dem :
                       \A d \in DOMAIN dem :
                           Abs(point.x - c) <= Abs(point.x - d)}
        cell == CHOOSE c \in nearest : \A d \in nearest : d <= c
    IN  IF dem[cell] = None THEN None ELSE Some([elevation_m |-> Val(dem[cell])])

\* terrain._calculate_slope_toward_point: 0.0 within a metre, else
\* degrees(atan2(from_elev - to_elev, dist_m)).
calculate_slope_toward_point(from_point, to_point, from_elev, to_elev) ==
    LET dist_m == Abs(to_point.x - from_point.x) * MetresPerUnit
    IN  IF dist_m < 1 THEN <<0, 1>> ELSE <<from_elev - to_elev, dist_m>>

\* calculate_directional_metrics with an inclusive upslope test
\* (elevation_diff >= 5.0).
calculate_directional_metrics_inclusive(dem, change_centroid, asset_location) ==
    LET change_terrain == sample_terrain_at_point(dem, change_centroid)
        asset_terrain == sample_terrain_at_point(dem, asset_location)
    IN  IF change_terrain = None \/ asset_terrain = None
        THEN None
        ELSE LET change_elev == Val(change_terrain).elevation_m
                 asset_elev == Val(asset_terrain).elevation_m
             IN  Some([change_elevation_m |-> change_elev,
                       asset_elevation_m |-> asset_elev,
                       elevation_diff_m |-> change_elev - asset_elev,
                       is_upslope |-> change_elev - asset_elev >= 5,
                       slope_toward_asset_deg |->
                           calculate_slope_toward_point(
                               change_centroid, asset_location,
                               change_elev, asset_elev)])

\* terrain.calculate_directional_metrics
calculate_directional_metrics(dem, change_centroid, asset_location) ==
    LET change_terrain == sample_terrain_at_point(dem, change_centroid)
        asset_terrain == sample_terrain_at_point(dem, asset_location)
    IN  IF change_terrain = None \/ asset_terrain = None
        THEN None
        ELSE LET change_elev == Val(change_terrain).elevation_m
                 asset_elev == Val(asset_terrain).elevation_m
             IN  Some([change_elevation_m |-> change_elev,
                       asset_elevation_m |-> asset_elev,
                       elevation_diff_m |-> change_elev - asset_elev,
                       is_upslope |-> change_elev - asset_elev > 5,
                       slope_toward_asset_deg |->
                           calculate_slope_toward_point(
                               change_centroid, asset_location,
                               change_elev, asset_elev)])

\* The ProximityResult find_nearby_assets appends for an asset in range.
nearby_result(asset, asset_geom, distance_m, metrics) ==
    [asset_id |-> Get(asset, "assetId", "unknown"),
     asset_type_name |-> Get(asset, "assetTypeName", "Unknown"),
     criticality |-> Get(asset, "criticality", 1),
     criticality_name |-> Get(asset, "criticalityName", "Medium"),
     distance_meters |-> distance_m,
     asset_geometry |-> asset_geom,
     asset_elevation_m |->
         IF metrics = None THEN None ELSE Some(Val(metrics).asset_elevation_m),
     elevation_diff_m |->
         IF metrics = None THEN None ELSE Some(Val(metrics).elevation_diff_m),
     is_upslope |->
         IF metrics = None THEN None ELSE Some(Val(metrics).is_upslope),
     slope_toward_asset_deg |->
         IF metrics = None THEN None
         ELSE Some(Val(metrics).slope_toward_asset_deg)]

\* process_asset that drops every asset of an overhead-line type, whatever
\* its geometry.
process_asset_by_type_only(ctx, asset) ==
    IF "geometry" \notin DOMAIN asset \/ DOMAIN asset.geometry = {}
    THEN Return(<<>>)
    ELSE LET asset_geom == shape(asset.geometry)
         IN  IF IsRaise(asset_geom)
             THEN asset_geom
             ELSE IF Get(asset, "assetTypeName", "None") \in OVERHEAD_LINE_TYPES
             THEN Return(<<>>)
             ELSE IF \/ bounds(asset_geom)[1] < -18000
                     \/ bounds(asset_geom)[3] > 18000
                     \/ bounds(asset_geom)[2] < -9000
                     \/ bounds(asset_geom)[4] > 9000
             THEN Return(<<>>)
             ELSE LET asset_projected == transform(ctx.to_projected, asset_geom)
                      distance_m == distance(ctx.change_projected, asset_projected)
                  IN  IF distance_m <= ctx.max_distance_m
                      THEN Return(<<nearby_result(
                               asset, asset_geom, distance_m,
                               IF ctx.dem_data # None
                               THEN calculate_directional_metrics(
                                        Val(ctx.dem_data), ctx.centroid,
                                        centroid(asset_geom))
                               ELSE None)>>)
                      ELSE Return(<<>>)

\* The body of the try block of the loop for one asset: Return(<<>>) where
\* the code continues, Return(<<r>>) where it appends r, or what it raises.
process_asset(ctx, asset) ==
    \* asset.get("geometry") missing, None or {}
    IF "geometry" \notin DOMAIN asset \/ DOMAIN asset.geometry = {}
    THEN Return(<<>>)
    ELSE LET asset_geom == shape(asset.geometry)
         IN  IF IsRaise(asset_geom)
             THEN asset_geom
             ELSE IF /\ asset_geom.geom_type \in {"LineString", "MultiLineString"}
                     /\ Get(asset, "assetTypeName", "None") \in OVERHEAD_LINE_TYPES
             THEN Return(<<>>)
             ELSE IF \/ bounds(asset_geom)[1] < -18000
                     \/ bounds(asset_geom)[3] > 18000
                     \/ bounds(asset_geom)[2] < -9000
                     \/ bounds(asset_geom)[4] > 9000
             THEN Return(<<>>)
             ELSE LET asset_projected == transform(ctx.to_projected, asset_geom)
                      distance_m == distance(ctx.change_projected, asset_projected)
                  IN  IF distance_m <= ctx.max_distance_m
                      THEN Return(<<nearby_result(
                               asset, asset_geom, distance_m,
                               IF ctx.dem_data # None
                               THEN calculate_directional_metrics(
                                        Val(ctx.dem_data), ctx.centroid,
                                        centroid(asset_geom))
                               ELSE None)>>)
                      ELSE Return(<<>>)

\* The loop over the assets: an exception of the try block is logged and the
\* loop continues.
RECURSIVE scan_assets(_, _)
scan_assets(ctx, assets) ==
    IF assets = <<>>
    THEN <<>>
    ELSE LET r == process_asset(ctx, Head(assets))
         IN  IF IsRaise(r)
             THEN scan_assets(ctx, Tail(assets))
             ELSE r.returned \o scan_assets(ctx, Tail(assets))

\* results.sort(key=lambda r: r.distance_meters): a stable sort.
RECURSIVE sort_by_distance(_)
sort_by_distance(results) ==
    IF results = <<>>
    THEN <<>>
    ELSE LET rest == sort_by_distance(Tail(results))
             \* the first of the sorted rest that is not nearer than the head
             k == FirstIndex({i \in DOMAIN rest :
                     rest[i].distance_meters >= Head(results).distance_meters})
         IN  IF k = 0
             THEN Append(rest, Head(results))
             ELSE SubSeq(rest, 1, k - 1) \o <<Head(results)>>
                    \o SubSeq(rest, k, Len(rest))

\* What the loop needs of the first part of find_nearby_assets.
proximity_context(change_polygon, max_distance_m, dem_data) ==
    LET c == centroid(change_polygon)
        to_projected ==
            IF -18000 <= c.x /\ c.x <= 18000 /\ -9000 <= c.y /\ c.y <= 9000
            THEN Some(MetresPerUnit)
            ELSE None
    IN  [centroid |-> c,
         to_projected |-> to_projected,
         change_projected |-> transform(to_projected, change_polygon),
         max_distance_m |-> max_distance_m,
         dem_data |-> dem_data]

\* find_nearby_assets without the try block: the first exception leaves the
\* function.
find_nearby_assets_unguarded(change_polygon, assets, max_distance_m, dem_data) ==
    LET ctx == proximity_context(change_polygon, max_distance_m, dem_data)
        bad == {i \in DOMAIN assets : IsRaise(process_asset(ctx, assets[i]))}
    IN  IF bad # {}
        THEN process_asset(ctx, assets[FirstIndex(bad)])
        ELSE Return(sort_by_distance(scan_assets(ctx, assets)))

find_nearby_assets(change_polygon, assets, max_distance_m, dem_data) ==
    IF assets = <<>>
    THEN Return(<<>>)
    ELSE Return(sort_by_distance(scan_assets(
             proximity_context(change_polygon, max_distance_m, dem_data),
             assets)))

(***************************************************************************)
(* SpecProximity: one call of find_nearby_assets on an asset inventory of  *)
(* at most MaxAssets records around a change polygon at 10.00-10.02 E,     *)
(* 45 N.  A hundredth of a degree is 1113 m, so the assets lie 0, 1113,    *)
(* 2226 and 3339 m from the polygon.                                       *)
(***************************************************************************)
MaxAssets == 3

ChangeGeometry == [geom_type |-> "Polygon", minx |-> 1000, maxx |-> 1002, y |-> 4500]

\* An asset record of the API with a GeoJSON geometry.
Asset(id, type_name, criticality, geojson_type, minx, maxx, y) ==
    [assetId |-> id, assetTypeName |-> type_name,
     criticality |-> criticality,
     criticalityName |-> CriticalityNames[criticality],
     geometry |-> [type |-> geojson_type, coordinates |-> <<minx, maxx, y>>]]

AssetRecords ==
    { Asset("tower", "TransmissionLine", 3, "Point", 1003, 1003, 4500),
      Asset("cable", "TransmissionLine", 3, "LineString", 1001, 1005, 4500),
      Asset("cables", "TransmissionLine", 3, "MultiLineString", 1003, 1004, 4500),
      Asset("road", "Road", 1, "LineString", 1004, 1006, 4500),
      Asset("school", "Building", 2, "Polygon", 1005, 1005, 4500),
      Asset("shed", "Building", 0, "Polygon", 1001, 1001, 4500),
      \* outside the WGS84 ranges: coordinates left in a projected frame
      Asset("projected", "Building", 2, "Point", 50000, 50000, 450000),
      \* no criticality and no type in the record, as far as the tower
      [assetId |-> "bare",
       geometry |-> [type |-> "Point", coordinates |-> <<1003, 1003, 4500>>]],
      \* no geometry, and an empty one
      [assetId |-> "nogeom", assetTypeName |-> "Building", criticality |-> 1,
       criticalityName |-> "Medium"],
      [assetId |-> "empty", assetTypeName |-> "Building", criticality |-> 1,
       criticalityName |-> "Medium", geometry |-> <<>>],
      \* a geometry shape() cannot parse
      [assetId |-> "broken", assetTypeName |-> "Building", criticality |-> 3,
       criticalityName |-> "Critical",
       geometry |-> [type |-> "Bogus", coordinates |-> <<1001, 1001, 4500>>]] }

AssetLists == UNION {[1..n -> AssetRecords] : n \in 0..MaxAssets}

MaxDistanceArgs == {500, 1113, 2500}

\* No DEM, or one whose cells hold 120 m under the polygon, 100 m at 10.03 E
\* and no data at 10.05 E.
DemArgs == {None, Some((1001 :> Some(120)) @@ (1003 :> Some(100)) @@ (1005 :> None))}

InitProximity ==
    /\ heap = InitialHeap
    /\ scorers = <<>>
    /\ change = attach_land_cover(
                    ChangePolygon(15000, -35, "VegetationLoss", Some(22),
                                  Some(1800)), None)
    /\ proximity = ProximityResult(1, 250, None)
    /\ op = "none"
    /\ arg \in {Some([change_polygon |-> ChangeGeometry, assets |-> as,
                      max_distance_m |-> m, dem_data |-> dem]) :
                    as \in AssetLists, m \in MaxDistanceArgs, dem \in DemArgs}
    /\ result = None

FindNearbyAssets ==
    /\ op = "none"
    /\ op' = "find_nearby_assets"
    /\ result' = Some(find_nearby_assets(
                          Val(arg).change_polygon, Val(arg).assets,
                          Val(arg).max_distance_m, Val(arg).dem_data))
    /\ UNCHANGED <<heap, scorers, change, proximity, arg>>

NextProximity == FindNearbyAssets

SpecProximity == InitProximity /\ [][NextProximity]_vars

(***************************************************************************)
(* SpecTerrain: one call of a terrain function on a small DEM.  The        *)
(* sampled DEM is one row of cells 0.02 degrees wide whose centres start   *)
(* at 10.01 E; the points lie on that row, inside the grid and up to 0.02  *)
(* degrees beyond either edge.                                             *)
(***************************************************************************)
MaxCells == 3

CellCentre(k) == 1001 + 2 * k
CellCentres == {CellCentre(k) : k \in 0..(MaxCells - 1)}
CellElevations == {None, Some(100), Some(105), Some(106)}
TerrainDems == [CellCentres -> CellElevations]

\* The outer edges of the first and the last cell.
GridMinX == CellCentre(0) - 1
GridMaxX == CellCentre(MaxCells - 1) + 1

TerrainPoints ==
    {[x |-> x, y |-> 0] : x \in (GridMinX - 2)..(GridMaxX + 2)}

InitTerrain ==
    /\ heap = InitialHeap
    /\ scorers = <<>>
    /\ change = attach_land_cover(
                    ChangePolygon(15000, -35, "VegetationLoss", Some(22),
                                  Some(1800)), None)
    /\ proximity = ProximityResult(1, 250, None)
    /\ op = "none"
    /\ arg = None
    /\ result = None

SampleTerrainAtPoint ==
    \E dem \in TerrainDems, point \in TerrainPoints :
        /\ op = "none"
        /\ op' = "sample_terrain_at_point"
        /\ arg' = Some([dem |-> dem, point |-> point])
        /\ result' = sample_terrain_at_point(dem, point)
        /\ UNCHANGED <<heap, scorers, change, proximity>>

CalculateDirectionalMetrics ==
    \E dem \in TerrainDems, change_centroid \in TerrainPoints,
       asset_location \in TerrainPoints :
        /\ op = "none"
        /\ op' = "calculate_directional_metrics"
        /\ arg' = Some([dem |-> dem, change_centroid |-> change_centroid,
                        asset_location |-> asset_location])
        /\ result' = calculate_directional_metrics(dem, change_centroid,
                                                   asset_location)
        /\ UNCHANGED <<heap, scorers, change, proximity>>

\* The elevation rasters of calculate_slope_aspect: GridSize rows (north to
\* south) of GridSize columns (west to east), a level surface at 100 m or
\* one that falls 10 m per cell to the north and to the west, with any set
\* of cells holding NaN (None).
GridSize == 3
GridCells == (1..GridSize) \X (1..GridSize)
Surfaces ==
    {[c \in GridCells |-> 100], [c \in GridCells |-> 100 + 10 * (c[1] + c[2])]}
ElevationRasters ==
    {[c \in GridCells |-> IF c \in nodata THEN None ELSE Some(surface[c])] :
        surface \in Surfaces, nodata \in SUBSET GridCells}

\* np.where(nodata_mask, 0, elev), read with mode="nearest": an index off
\* the raster is clamped to the edge row or column.
filled(elev, i, j) ==
    LET cell == <<Max(1, Min(GridSize, i)), Max(1, Min(GridSize, j))>>
    IN  IF elev[cell] = None THEN 0 ELSE Val(elev[cell])

\* ndimage.convolve(elev, kernel_x) times 8 * cell_size: convolution flips
\* the kernel, so the west column counts positive and the east negative.
dz_dx(elev, i, j) ==
    (filled(elev, i - 1, j - 1) + 2 * filled(elev, i, j - 1)
        + filled(elev, i + 1, j - 1))
    - (filled(elev, i - 1, j + 1) + 2 * filled(elev, i, j + 1)
        + filled(elev, i + 1, j + 1))

\* ndimage.convolve(elev, kernel_y) times 8 * cell_size: the row below
\* counts positive and the row above negative.
dz_dy(elev, i, j) ==
    (filled(elev, i + 1, j - 1) + 2 * filled(elev, i + 1, j)
        + filled(elev, i + 1, j + 1))
    - (filled(elev, i - 1, j - 1) + 2 * filled(elev, i - 1, j)
        + filled(elev, i - 1, j + 1))

\* terrain.calculate_slope_aspect: per cell None for NaN, else the slope as
\* the squared gradient (8 * cell_size)^2 * tan(slope)^2 and the aspect as
\* the arguments of arctan2.
calculate_slope_aspect(elev) ==
    [c \in GridCells |->
        IF elev[c] = None
        THEN [slope |-> None, aspect |-> None]
        ELSE LET gx == dz_dx(elev, c[1], c[2])
                 gy == dz_dy(elev, c[1], c[2])
             IN  [slope |-> Some(gx * gx + gy * gy),
                  aspect |-> Some(<<-gx, gy>>)]]

CalculateSlopeAspect ==
    \E elev \in ElevationRasters :
        /\ op = "none"
        /\ op' = "calculate_slope_aspect"
        /\ arg' = Some(elev)
        /\ result' = Some(calculate_slope_aspect(elev))
        /\ UNCHANGED <<heap, scorers, change, proximity>>

NextTerrain ==
    \/ SampleTerrainAtPoint
    \/ CalculateDirectionalMetrics
    \/ CalculateSlopeAspect

SpecTerrain == InitTerrain /\ [][NextTerrain]_vars

(***************************************************************************)
(* cli.py: the process command, one statement group per step.  In          *)
(* SpecProcess op is the position of the command, arg holds its options    *)
(* and result what it has done so far: the local run_id, the mutating      *)
(* requests that reached the API (api), the uploads to object storage, the *)
(* number of change polygons, whether land cover was attached to them, and *)
(* the number of risk events.                                              *)
(***************************************************************************)
ProcessingStatus ==
    [PENDING |-> 0, FETCHING_IMAGERY |-> 1, CALCULATING_NDVI |-> 2,
     DETECTING_CHANGES |-> 3, SCORING_RISK |-> 4, COMPLETED |-> 5,
     FAILED |-> 6]

\* What happens to a request of ApiClient: it succeeds; it raises before it
\* reaches the API (no connection); or it reaches the API and
\* raise_for_status() or response.json() raises on the answer.
ApiOutcomes == {"ok", "refused", "rejected"}

Request(method, status, fields) ==
    [method |-> method, status |-> status, fields |-> fields]

\* The requests that reached the API after one more call.
reached(api, request, outcome) ==
    IF outcome = "refused" THEN api ELSE Append(api, request)

\* api.update_processing_run(run_id, ...)
update_processing_run(api, status, fields, outcome) ==
    reached(api, Request("update_processing_run", status, fields), outcome)

MaxPolygons == 1

ProcessOptions ==
    [run_id : {None, Some("run-1")}, dry_run : BOOLEAN]

InitProcess ==
    /\ heap = InitialHeap
    /\ scorers = <<>>
    /\ change = attach_land_cover(
                    ChangePolygon(15000, -35, "VegetationLoss", Some(22),
                                  Some(1800)), None)
    /\ proximity = ProximityResult(1, 250, None)
    /\ op = "get_aoi"
    /\ arg \in ProcessOptions
    /\ result = [run_id |-> arg.run_id, api |-> <<>>, uploads |-> 0,
                 polygons |-> 0, classified |-> FALSE, risk_events |-> 0]

\* aoi = api.get_aoi(aoi_id)
GetAoi ==
    /\ op = "get_aoi"
    /\ \E ok \in BOOLEAN :
          op' = IF ok THEN "run" ELSE "except"
    /\ UNCHANGED <<heap, scorers, change, proximity, arg, result>>

\* Use the existing run, or create one unless this is a dry run.
UseOrCreateRun ==
    /\ op = "run"
    /\ IF result.run_id # None \/ arg.dry_run
       THEN op' = "fetching" /\ UNCHANGED result
       ELSE \E outcome \in ApiOutcomes :
              /\ op' = IF outcome = "ok" THEN "fetching" ELSE "except"
              /\ result' =
                    [result EXCEPT
                       !.api = reached(@, Request("create_processing_run",
                                                  None, {}), outcome),
                       !.run_id = IF outcome = "ok" THEN Some("created")
                                  ELSE @]
    /\ UNCHANGED <<heap, scorers, change, proximity, arg>>

\* Status FETCHING_IMAGERY, sent when there is a run id.
SearchImagery ==
    /\ op = "fetching"
    /\ IF result.run_id # None
       THEN \E outcome \in ApiOutcomes :
              /\ op' = IF outcome = "ok" THEN "find" ELSE "except"
              /\ result' =
                    [result EXCEPT
                       !.api = update_processing_run(
                                   @, Some(ProcessingStatus.FETCHING_IMAGERY),
                                   {}, outcome)]
       ELSE op' = "find" /\ UNCHANGED result
    /\ UNCHANGED <<heap, scorers, change, proximity, arg>>

\* before_scene, after_scene = find_scene_pair(...)
FindScenePair ==
    /\ op = "find"
    /\ \E found \in {"pair", "missing", "raise"} :
          op' = CASE found = "pair" -> "scene_ids"
                  [] found = "missing" -> "missing"
                  [] found = "raise" -> "except"
    /\ UNCHANGED <<heap, scorers, change, proximity, arg, result>>

\* No scene pair: status FAILED, then sys.exit(1), whose SystemExit the
\* handler for Exception does not catch.
MissingScenePair ==
    /\ op = "missing"
    /\ IF result.run_id # None
       THEN \E outcome \in ApiOutcomes :
              /\ op' = IF outcome = "ok" THEN "exit" ELSE "except"
              /\ result' =
                    [result EXCEPT
                       !.api = update_processing_run(
                                   @, Some(ProcessingStatus.FAILED),
                                   {"error_message"}, outcome)]
       ELSE op' = "exit" /\ UNCHANGED result
    /\ UNCHANGED <<heap, scorers, change, proximity, arg>>

\* The scene ids of the pair, sent when there is a run id.
RecordSceneIds ==
    /\ op = "scene_ids"
    /\ IF result.run_id # None
       THEN \E outcome \in ApiOutcomes :
              /\ op' = IF outcome = "ok" THEN "rgb" ELSE "except"
              /\ result' =
                    [result EXCEPT
                       !.api = update_processing_run(
                                   @, None,
                                   {"before_scene_id", "after_scene_id"},
                                   outcome)]
       ELSE op' = "rgb" /\ UNCHANGED result
    /\ UNCHANGED <<heap, scorers, change, proximity, arg>>

\* RGB composites, created and uploaded to storage unless this is a dry run.
UploadRgbComposites ==
    /\ op = "rgb"
    /\ IF ~arg.dry_run
       THEN \E ok \in BOOLEAN :
              /\ op' = IF ok THEN "ndvi" ELSE "except"
              /\ result' = [result EXCEPT
                              !.uploads = IF ok THEN @ + 1 ELSE @]
       ELSE op' = "ndvi" /\ UNCHANGED result
    /\ UNCHANGED <<heap, scorers, change, proximity, arg>>

\* Status CALCULATING_NDVI, then calculate_ndvi_from_scene for both scenes.
CalculateNdvi ==
    /\ op = "ndvi"
    /\ \E outcome \in ApiOutcomes, ok \in BOOLEAN :
          /\ op' = IF (result.run_id # None => outcome = "ok") /\ ok
                   THEN "detect" ELSE "except"
          /\ result' =
                IF result.run_id # None
                THEN [result EXCEPT
                        !.api = update_processing_run(
                                    @, Some(ProcessingStatus.CALCULATING_NDVI),
                                    {}, outcome)]
                ELSE result
    /\ UNCHANGED <<heap, scorers, change, proximity, arg>>

\* Status DETECTING_CHANGES, then detect_changes, which yields the polygons.
DetectChangesStep ==
    /\ op = "detect"
    /\ \E outcome \in ApiOutcomes, ok \in BOOLEAN, n \in 0..MaxPolygons :
          LET sent == result.run_id # None => outcome = "ok"
          IN  /\ op' = IF sent /\ ok THEN "enrich" ELSE "except"
              /\ result' =
                    [result EXCEPT
                       !.api = IF result.run_id # None
                               THEN update_processing_run(
                                        @,
                                        Some(ProcessingStatus.DETECTING_CHANGES),
                                        {}, outcome)
                               ELSE @,
                       !.polygons = IF sent /\ ok THEN n ELSE @]
    /\ UNCHANGED <<heap, scorers, change, proximity, arg>>

\* Terrain, land cover and landslide blocks: each catches every Exception.
\* Land cover classification, when it runs, sets land_cover_class on the
\* polygons; ChangePolygon has no such field of its own.
EnrichPolygons ==
    /\ op = "enrich"
    /\ op' = "save_polygons"
    /\ \E classified \in BOOLEAN :
          result' = [result EXCEPT
                       !.classified = result.polygons > 0 /\ classified]
    /\ UNCHANGED <<heap, scorers, change, proximity, arg>>

\* api.create_change_polygons, unless this is a dry run or nothing changed.
SaveChangePolygons ==
    /\ op = "save_polygons"
    /\ IF ~arg.dry_run /\ result.polygons > 0
       THEN \E outcome \in ApiOutcomes :
              /\ op' = IF outcome = "ok" THEN "scoring" ELSE "except"
              /\ result' =
                    [result EXCEPT
                       !.api = reached(@, Request("create_change_polygons",
                                                  None, {}), outcome)]
       ELSE op' = "scoring" /\ UNCHANGED result
    /\ UNCHANGED <<heap, scorers, change, proximity, arg>>

\* Status SCORING_RISK, api.get_assets_geojson, then one risk event per
\* polygon and nearby asset; calculate_risk_score reads land_cover_class and
\* raises AttributeError on a polygon that was not classified.
ScoreRiskEvents ==
    /\ op = "scoring"
    /\ \E outcome \in ApiOutcomes, ok \in BOOLEAN,
          nearby \in 0..result.polygons :
          LET sent == result.run_id # None => outcome = "ok"
              scored == sent /\ ok /\ (nearby > 0 => result.classified)
          IN  /\ op' = IF scored THEN "save_events" ELSE "except"
              /\ result' =
                    [result EXCEPT
                       !.api = IF result.run_id # None
                               THEN update_processing_run(
                                        @, Some(ProcessingStatus.SCORING_RISK),
                                        {}, outcome)
                               ELSE @,
                       !.risk_events = IF scored THEN nearby ELSE @]
    /\ UNCHANGED <<heap, scorers, change, proximity, arg>>

\* api.create_risk_events, unless this is a dry run or there are none.
SaveRiskEvents ==
    /\ op = "save_events"
    /\ IF ~arg.dry_run /\ result.risk_events > 0
       THEN \E outcome \in ApiOutcomes :
              /\ op' = IF outcome = "ok" THEN "complete" ELSE "except"
              /\ result' =
                    [result EXCEPT
                       !.api = reached(@, Request("create_risk_events",
                                                  None, {}), outcome)]
       ELSE op' = "complete" /\ UNCHANGED result
    /\ UNCHANGED <<heap, scorers, change, proximity, arg>>

\* Status COMPLETED with the run's metadata, sent when there is a run id.
\* Building the metadata reads c.land_cover_class of the polygons, which
\* raises AttributeError before the request when they were not classified.
CompleteRun ==
    /\ op = "complete"
    /\ IF result.run_id = None
       THEN op' = "done" /\ UNCHANGED result
       ELSE IF result.polygons > 0 /\ ~result.classified
       THEN op' = "except" /\ UNCHANGED result
       ELSE \E outcome \in ApiOutcomes :
              /\ op' = IF outcome = "ok" THEN "done" ELSE "except"
              /\ result' =
                    [result EXCEPT
                       !.api = update_processing_run(
                                   @, Some(ProcessingStatus.COMPLETED),
                                   {"metadata"}, outcome)]
    /\ UNCHANGED <<heap, scorers, change, proximity, arg>>

\* except Exception: status FAILED through a new ApiClient when there is a
\* run id, any Exception of that request being ignored; then sys.exit(1).
HandleException ==
    /\ op = "except"
    /\ op' = "exit"
    /\ IF result.run_id # None
       THEN \E outcome \in ApiOutcomes :
              result' =
                  [result EXCEPT
                     !.api = update_processing_run(
                                 @, Some(ProcessingStatus.FAILED),
                                 {"error_message"}, outcome)]
       ELSE UNCHANGED result
    /\ UNCHANGED <<heap, scorers, change, proximity, arg>>

NextProcess ==
    \/ GetAoi
    \/ UseOrCreateRun
    \/ SearchImagery
    \/ FindScenePair
    \/ MissingScenePair
    \/ RecordSceneIds
    \/ UploadRgbComposites
    \/ CalculateNdvi
    \/ DetectChangesStep
    \/ EnrichPolygons
    \/ SaveChangePolygons
    \/ ScoreRiskEvents
    \/ SaveRiskEvents
    \/ CompleteRun
    \/ HandleException

SpecProcess == InitProcess /\ [][NextProcess]_vars

(***************************************************************************)
(* Properties.                                                             *)
(***************************************************************************)
\* calculate_risk_score ran and returned a RiskScore.
Returned == op = "calculate_risk_score" /\ ~IsRaise(Val(result))

HasFactor(fs, name) == \E i \in DOMAIN fs : fs[i].name = name

FactorPoints(fs, name) ==
    fs[CHOOSE i \in DOMAIN fs : fs[i].name = name].points

AdditiveNames == {"Distance", "NDVI Drop", "Area", "Slope", "Slope + Direction",
                  "Aspect"}

\* The sum of the additive factor points of a returned factor list.
AdditiveSum(fs) ==
    SumPoints(SelectSeq(fs, LAMBDA f : f.name \in AdditiveNames))

\* The score the default scorer returns for the current pair with the
\* asset's criticality replaced by c.
ScoreAt(c) ==
    calculate_risk_score(
        DefaultConfig, change,
        ProximityResult(c, proximity.distance_meters,
                        proximity.elevation_diff_m)).score

\* The running total of the current pair when the criticality step starts.
PreCriticality == before_criticality(DefaultConfig, change, proximity)[2]

\* C1: for every ChangePolygon and ProximityResult with finite fields and a
\* criticality in 0..3, calculate_risk_score with the default configuration
\* returns a score in 0..100 and a level among Low, Medium, High, Critical.
C1_ScoreInRange ==
    op = "calculate_risk_score" =>
        /\ ~IsRaise(Val(result))
        /\ Val(result).score \in 0..100
        /\ Val(result).level \in {"Low", "Medium", "High", "Critical"}

\* C2: the returned score is min(100, floor(floor(floor(A * lc) * ls) * crit)):
\* A is the sum of the additive factor points, lc the land-cover multiplier
\* of the class (1 without a class or for a class outside the table), ls the
\* landslide multiplier (1 unless the change is LandslideDebris on a slope of
\* at least 15 degrees), crit the criticality multiplier, each product being
\* floored before the next multiplier is applied, in that order.
C2_OrderedFlooredProduct ==
    Returned =>
        LET A == AdditiveSum(Val(result).factors)
            lc == get_land_cover_multiplier(DefaultConfig, change.land_cover_class)
            ls == IF /\ change.change_type = "LandslideDebris"
                     /\ change.slope_degree_mean # None
                     /\ Val(change.slope_degree_mean) >= 15
                  THEN IF /\ proximity.elevation_diff_m # None
                          /\ Val(proximity.elevation_diff_m) > 5
                       THEN Min(180 + 50, 250) ELSE 180
                  ELSE 100
            crit == DEFAULT_SCORING.criticality.multipliers[proximity.criticality]
        IN  Val(result).score
              = Min(100, IntTimes(IntTimes(IntTimes(A, lc), ls), crit))

\* C2 witness: a returned score below 100 to which all three multipliers
\* contributed.
C2_Witness ==
    /\ Returned
    /\ Val(result).score < 100
    /\ HasFactor(Val(result).factors, "Land Cover")
    /\ FactorPoints(Val(result).factors, "Land Cover") < 0
    /\ HasFactor(Val(result).factors, "Landslide Detection")
    /\ FactorPoints(Val(result).factors, "Landslide Detection") > 0
    /\ proximity.criticality = 2

\* C3: with the change and the other proximity fields fixed, the returned
\* score does not decrease as the criticality goes Low, Medium, High,
\* Critical.
C3_NonDecreasingInCriticality ==
    Returned =>
        /\ Val(result).score = ScoreAt(proximity.criticality)
        /\ \A c \in Criticalities :
              /\ c <= proximity.criticality => ScoreAt(c) <= Val(result).score
              /\ c >= proximity.criticality => ScoreAt(c) >= Val(result).score

\* C3 witness: a High-criticality score strictly between those of the Low and
\* the Critical tier.
C3_Witness ==
    /\ Returned
    /\ proximity.criticality = 2
    /\ ScoreAt(0) < Val(result).score
    /\ Val(result).score < ScoreAt(3)

\* C4 as stated: the four tiers give strictly increasing scores whenever the
\* pre-criticality subtotal is positive and the Critical-tier score is not
\* capped at 100.
C4_StrictWhenPositive ==
    (Returned /\ PreCriticality > 0 /\ 2 * PreCriticality <= 100) =>
        /\ ScoreAt(0) < ScoreAt(1)
        /\ ScoreAt(1) < ScoreAt(2)
        /\ ScoreAt(2) < ScoreAt(3)

\* C4 amended: the four tiers give strictly increasing scores whenever the
\* pre-criticality subtotal is at least 2 and the Critical-tier score is not
\* capped at 100; with a subtotal of 1 the scores are 0, 1, 1, 2.
C4_StrictFromTwo ==
    /\ (Returned /\ PreCriticality >= 2 /\ 2 * PreCriticality <= 100) =>
          /\ ScoreAt(0) < ScoreAt(1)
          /\ ScoreAt(1) < ScoreAt(2)
          /\ ScoreAt(2) < ScoreAt(3)
          /\ Val(result).score = ScoreAt(proximity.criticality)
    /\ (Returned /\ PreCriticality = 1) =>
          <<ScoreAt(0), ScoreAt(1), ScoreAt(2), ScoreAt(3)>> = <<0, 1, 1, 2>>

\* C4 witness: a Low-criticality score of a pair whose subtotal is at least 2
\* and whose Critical-tier score is uncapped.
C4_Witness ==
    /\ Returned
    /\ PreCriticality >= 2
    /\ 2 * PreCriticality <= 100
    /\ proximity.criticality = 0
    /\ Val(result).score < PreCriticality

\* C5: calculate_risk_score never fails on a per-call input; for a polygon
\* that was never classified (no land-cover class attached, change_type not
\* LandslideDebris) it returns the score of land-cover multiplier 1.0, with no
\* Land Cover and no Landslide Detection factor.
C5_UnclassifiedScoresNeutral ==
    (/\ op = "calculate_risk_score"
     /\ "land_cover_class" \notin DOMAIN change
     /\ change.change_type # "LandslideDebris") =>
        /\ ~IsRaise(Val(result))
        /\ ~HasFactor(Val(result).factors, "Land Cover")
        /\ ~HasFactor(Val(result).factors, "Landslide Detection")
        /\ Val(result).score
             = Min(100, IntTimes(
                   AdditiveSum(Val(result).factors),
                   DEFAULT_SCORING.criticality.multipliers[proximity.criticality]))

\* C6: constructing a scorer with an override leaves the module-level default
\* configuration unchanged, and a scorer constructed with no override,
\* before or after an overriding one, scores with the default thresholds.
C6_OverrideLeavesDefaultsAlone ==
    /\ heap = InitialHeap
    /\ (op = "calculate_risk_score" /\ scorers[Val(arg)].init_config = None) =>
          Val(result) = calculate_risk_score(DEFAULT_SCORING, change, proximity)

\* C7: a malformed configuration is rejected when the scorer is constructed;
\* it never surfaces as an error inside calculate_risk_score.
C7_MalformedConfigNeverReachesScoring ==
    op = "calculate_risk_score" =>
        ~(IsRaise(Val(result)) /\ Val(result).raised = "KeyError")

\* C8: _score_distance awards 28 points below 100 m, 21 below 500 m, 14 below
\* 1000 m, 7 below 2500 m and 0 otherwise, with strict comparisons, so the
\* points never increase with the distance.
C8_DistanceTiers ==
    op = "_score_distance" =>
        LET d == Val(arg)
        IN  /\ Val(result).points
                 = (IF d < 100 THEN 28 ELSE IF d < 500 THEN 21
                    ELSE IF d < 1000 THEN 14 ELSE IF d < 2500 THEN 7 ELSE 0)
            /\ d + 1 \in DistanceArgs =>
                  score_distance(DefaultConfig, d + 1).points <= Val(result).points

\* C8 witness: exactly 2500 m scores 0.
C8_Witness ==
    op = "_score_distance" /\ Val(arg) = 2500 /\ Val(result).points = 0

\* C9 as stated: every aspect a with 157.5 <= a <= 202.5 scores 5, exactly 0
\* and exactly 360 score 0, and aspects are reduced modulo 360.
C9_SouthClosedInterval ==
    op = "_score_aspect" =>
        LET a == Val(arg)
        IN  /\ (1575 <= a /\ a <= 2025) => Val(result).points = 5
            /\ a \in {0, 3600} => Val(result).points = 0
            /\ a + 3600 \in AspectArgs =>
                  score_aspect(DefaultConfig, a + 3600) = Val(result)

\* C9 amended: every aspect a with 157.5 <= a < 202.5 scores 5 and exactly
\* 202.5 scores 4 (it opens the south-west sector); exactly 0 and exactly 360
\* score 0; aspects are reduced modulo 360 before the lookup.
C9_SouthHalfOpen ==
    op = "_score_aspect" =>
        LET a == Val(arg)
        IN  /\ (1575 <= a /\ a < 2025) =>
                  (Val(result).points = 5 /\ Val(result).reason_code = "ASPECT_SOUTH")
            /\ a = 2025 =>
                  (Val(result).points = 4 /\ Val(result).reason_code = "ASPECT_SW")
            /\ a \in {0, 3600} => Val(result).points = 0
            /\ a + 3600 \in AspectArgs =>
                  score_aspect(DefaultConfig, a + 3600) = Val(result)

\* C9 witness: exactly 202.5 degrees scored as south-west.
C9_Witness ==
    op = "_score_aspect" /\ Val(arg) = 2025 /\ Val(result).points = 4

\* C10: the returned factor list contains Distance, NDVI Drop and Area; a
\* slope factor exactly when slope_degree_mean is present and an Aspect
\* factor exactly when aspect_degrees is present; and exactly one
\* Criticality factor, which is the last element.
C10_FactorListShape ==
    Returned =>
        LET fs == Val(result).factors
        IN  /\ HasFactor(fs, "Distance")
            /\ HasFactor(fs, "NDVI Drop")
            /\ HasFactor(fs, "Area")
            /\ (HasFactor(fs, "Slope") \/ HasFactor(fs, "Slope + Direction"))
                  <=> change.slope_degree_mean # None
            /\ HasFactor(fs, "Aspect") <=> change.aspect_degrees # None
            /\ Cardinality({i \in DOMAIN fs : fs[i].name = "Criticality"}) = 1
            /\ fs[Len(fs)].name = "Criticality"

\* C10 witness: a polygon with an aspect and no slope scored with four
\* factors besides Aspect.
C10_Witness ==
    /\ Returned
    /\ change.slope_degree_mean = None
    /\ change.aspect_degrees # None
    /\ HasFactor(Val(result).factors, "Aspect")
    /\ ~HasFactor(Val(result).factors, "Slope")

\* The points of the named factor of a returned list, 0 when it is absent.
PointsOrZero(fs, name) ==
    IF HasFactor(fs, name) THEN FactorPoints(fs, name) ELSE 0

\* The land-cover multiplier the default table gives the current change.
ClassMultiplier ==
    IF change.land_cover_class = None
    THEN 100
    ELSE Get(DEFAULT_SCORING.land_cover.multipliers,
             Val(change.land_cover_class), 100)

\* The current change is LandslideDebris on a slope of at least 15 degrees.
OnLandslideSlope ==
    /\ change.change_type = "LandslideDebris"
    /\ change.slope_degree_mean # None
    /\ Val(change.slope_degree_mean) >= 15

\* The landslide multiplier the current pair is due: 1.8, or
\* min(1.8 + 0.5, 2.5) when the change lies more than 5 m above the asset.
DueLandslideMultiplier ==
    IF ~OnLandslideSlope THEN 100
    ELSE IF proximity.elevation_diff_m # None /\ Val(proximity.elevation_diff_m) > 5
    THEN Min(180 + 50, 250)
    ELSE 180

CritMultiplier == DEFAULT_SCORING.criticality.multipliers[proximity.criticality]

\* C11: a Land Cover factor is in the result exactly when the change has a
\* land-cover class; for a class whose multiplier is 1.0 (Forest, or a name
\* outside the table) the factor has 0 points and the score is that of the
\* same change without a class; for any other class the running total after
\* the step is floor(subtotal * class multiplier), the factor carries the
\* difference, and the score follows from that total.
C11_LandCoverFactor ==
    Returned =>
        LET fs == Val(result).factors
            A == AdditiveSum(fs)
        IN  /\ HasFactor(fs, "Land Cover") <=> change.land_cover_class # None
            /\ (change.land_cover_class # None /\ ClassMultiplier = 100) =>
                  /\ FactorPoints(fs, "Land Cover") = 0
                  /\ Val(result).score
                       = calculate_risk_score(
                             DefaultConfig, attach_land_cover(change, None),
                             proximity).score
            /\ ClassMultiplier # 100 =>
                  /\ FactorPoints(fs, "Land Cover")
                       = IntTimes(A, ClassMultiplier) - A
                  /\ Val(result).score
                       = Min(100, IntTimes(
                             IntTimes(IntTimes(A, ClassMultiplier),
                                      DueLandslideMultiplier),
                             CritMultiplier))

\* C11 witness: a class outside the table recorded with a zero-point factor on
\* a positive score.
C11_Witness ==
    /\ Returned
    /\ change.land_cover_class = Some("Desert")
    /\ HasFactor(Val(result).factors, "Land Cover")
    /\ FactorPoints(Val(result).factors, "Land Cover") = 0
    /\ Val(result).score > 0

\* C12: the landslide multiplier is applied exactly when the change is
\* LandslideDebris with slope_degree_mean >= 15 (a missing slope is below the
\* floor): 1.8, or min(1.8 + 0.5, 2.5) when elevation_diff_m > 5.  Below the
\* floor a zero-point LANDSLIDE_LOW_SLOPE factor is recorded and the subtotal
\* is unchanged; for another change_type there is no Landslide Detection
\* factor.
C12_LandslideMultiplier ==
    Returned =>
        LET fs == Val(result).factors
            sub == AdditiveSum(fs) + PointsOrZero(fs, "Land Cover")
            ld == fs[CHOOSE i \in DOMAIN fs : fs[i].name = "Landslide Detection"]
        IN  /\ HasFactor(fs, "Landslide Detection")
                  <=> change.change_type = "LandslideDebris"
            /\ OnLandslideSlope =>
                  /\ ld.reason_code \in {"LANDSLIDE_UPSLOPE", "LANDSLIDE_DETECTED"}
                  /\ ld.points = IntTimes(sub, DueLandslideMultiplier) - sub
                  /\ Val(result).score
                       = Min(100, IntTimes(IntTimes(sub, DueLandslideMultiplier),
                                           CritMultiplier))
            /\ (change.change_type = "LandslideDebris" /\ ~OnLandslideSlope) =>
                  /\ ld.reason_code = "LANDSLIDE_LOW_SLOPE"
                  /\ ld.points = 0
            /\ ~OnLandslideSlope =>
                  Val(result).score = Min(100, IntTimes(sub, CritMultiplier))

\* C12 witness: a landslide on a slope of exactly 15 degrees, 50 m above the
\* asset, whose factor carries a positive delta.
C12_Witness ==
    /\ Returned
    /\ change.change_type = "LandslideDebris"
    /\ change.slope_degree_mean = Some(15)
    /\ proximity.elevation_diff_m = Some(50)
    /\ FactorPoints(Val(result).factors, "Landslide Detection") > 0
    /\ Val(result).score < 100

\* The score of the current pair with the change typed VegetationLoss.
VegetationLossScore ==
    calculate_risk_score(
        DefaultConfig, [change EXCEPT !.change_type = "VegetationLoss"],
        proximity).score

\* C13: a LandslideDebris change with slope_degree_mean >= 15 and
\* elevation_diff_m > 5 never scores lower than the same change typed
\* VegetationLoss, and scores strictly higher whenever the subtotal before the
\* landslide step is positive and the VegetationLoss score is below 100.
C13_LandslideAboveVegetationLoss ==
    (/\ Returned
     /\ OnLandslideSlope
     /\ proximity.elevation_diff_m # None
     /\ Val(proximity.elevation_diff_m) > 5) =>
        LET fs == Val(result).factors
            sub == AdditiveSum(fs) + PointsOrZero(fs, "Land Cover")
        IN  /\ Val(result).score >= VegetationLossScore
            /\ (sub > 0 /\ VegetationLossScore < 100) =>
                  Val(result).score > VegetationLossScore

\* C13 witness: an upslope landslide at a Low-criticality asset scoring above
\* its VegetationLoss twin.
C13_Witness ==
    /\ Returned
    /\ OnLandslideSlope
    /\ proximity.elevation_diff_m = Some(50)
    /\ proximity.criticality = 0
    /\ Val(result).score > VegetationLossScore

\* C14: the Land Cover, Landslide Detection and Criticality factors each
\* carry the integer change their step made to the running score (value after
\* minus value before), so the score is min(100, floor(sum of the points of
\* the non-Criticality factors * criticality multiplier)).
C14_FactorPointsAreStepDeltas ==
    Returned =>
        LET fs == Val(result).factors
            A == AdditiveSum(fs)
            afterLandCover == IntTimes(A, ClassMultiplier)
            afterLandslide == IntTimes(afterLandCover, DueLandslideMultiplier)
        IN  /\ PointsOrZero(fs, "Land Cover") = afterLandCover - A
            /\ PointsOrZero(fs, "Landslide Detection")
                 = afterLandslide - afterLandCover
            /\ FactorPoints(fs, "Criticality")
                 = Val(result).score - afterLandslide
            /\ Val(result).score
                 = Min(100, IntTimes(SumPoints(fs) - FactorPoints(fs, "Criticality"),
                                     CritMultiplier))

\* C15: _get_risk_level maps every integer score in 0..100 to exactly one
\* level (Low for 0-24, Medium for 25-49, High for 50-74, Critical for
\* 75-100) and every score outside 0..100 to "Unknown".
C15_RiskLevelBuckets ==
    op = "_get_risk_level" =>
        LET score == Val(arg)
        IN  /\ Val(result)
                 = (IF score < 0 \/ score > 100 THEN "Unknown"
                    ELSE IF score <= 24 THEN "Low"
                    ELSE IF score <= 49 THEN "Medium"
                    ELSE IF score <= 74 THEN "High"
                    ELSE "Critical")
            /\ score \in 0..100 =>
                  Cardinality({i \in DOMAIN DEFAULT_SCORING.risk_levels :
                      /\ DEFAULT_SCORING.risk_levels[i].min_score <= score
                      /\ score <= DEFAULT_SCORING.risk_levels[i].max_score}) = 1

\* C15 witness: the score 100 is Critical.
C15_Witness ==
    op = "_get_risk_level" /\ Val(arg) = 100 /\ Val(result) = "Critical"

\* C16: without a land-cover label _classify_change compares strictly: a
\* mean drop below -0.2 is VegetationLoss, above 0.2 VegetationGain, and
\* everything in [-0.2, 0.2] is Unknown; so exactly -0.2 and exactly 0.2 are
\* Unknown and exactly -0.4 is VegetationLoss.
C16_StrictNdviBands ==
    (op = "_classify_change" /\ Len(Val(arg)) = 1) =>
        LET d == Val(arg)[1]
        IN  /\ d < -20 => Val(result) = Return("VegetationLoss")
            /\ d > 20 => Val(result) = Return("VegetationGain")
            /\ (-20 <= d /\ d <= 20) => Val(result) = Return("Unknown")

\* C16 witness: exactly -0.2 classified Unknown.
C16_Witness ==
    /\ op = "_classify_change"
    /\ Val(arg) = <<-20>>
    /\ Val(result) = Return("Unknown")

\* C17: with a land-cover label, _classify_change(drop, land_cover) follows
\* the decision table: below -0.4, FireBurnScar for Forest,
\* AgriculturalChange for AnnualCrop and PermanentCrop, VegetationLoss for
\* any other class; from -0.4 up to but excluding -0.2, AgriculturalChange
\* for the crops, DroughtStress for HerbaceousVegetation and Pasture,
\* VegetationLoss otherwise; above 0.2 VegetationGain and in [-0.2, 0.2]
\* Unknown whatever the class.
C17_LandCoverDecisionTable ==
    (op = "_classify_change" /\ Len(Val(arg)) = 2) =>
        LET d == Val(arg)[1]
            lc == Val(Val(arg)[2])
            crops == {"AnnualCrop", "PermanentCrop"}
        IN  Val(result)
              = Return(
                 IF d < -40
                 THEN (IF lc = "Forest" THEN "FireBurnScar"
                       ELSE IF lc \in crops THEN "AgriculturalChange"
                       ELSE "VegetationLoss")
                 ELSE IF d < -20
                 THEN (IF lc \in crops THEN "AgriculturalChange"
                       ELSE IF lc \in {"HerbaceousVegetation", "Pasture"}
                       THEN "DroughtStress"
                       ELSE "VegetationLoss")
                 ELSE IF d > 20 THEN "VegetationGain"
                 ELSE "Unknown")

\* C18: to_dict encodes change_type with the fixed bijection Unknown=0,
\* VegetationLoss=1, VegetationGain=2, FireBurnScar=3, DroughtStress=4,
\* AgriculturalChange=5, LandslideDebris=6; every other label encodes to 0,
\* so changeType is always in 0..6.
C18_ChangeTypeCodes ==
    op = "to_dict" =>
        LET codes == ("Unknown" :> 0) @@ ("VegetationLoss" :> 1)
                       @@ ("VegetationGain" :> 2) @@ ("FireBurnScar" :> 3)
                       @@ ("DroughtStress" :> 4) @@ ("AgriculturalChange" :> 5)
                       @@ ("LandslideDebris" :> 6)
        IN  /\ Val(result).changeType = Get(codes, change.change_type, 0)
            /\ Val(result).changeType \in 0..6

\* The record has a geometry the geometry library can read.
HasGeometry(asset) ==
    /\ "geometry" \in DOMAIN asset
    /\ DOMAIN asset.geometry # {}
    /\ asset.geometry.type \in GeometryTypes

\* The metric distance, in metres, from the change polygon to a record that
\* has a geometry.
MetricDistance(asset) ==
    LET c == asset.geometry.coordinates
        p == Val(arg).change_polygon
    IN  MetresPerUnit * Max(0, Max(c[1] - p.maxx, p.minx - c[2]))

\* The record is one find_nearby_assets is to return.
Qualifies(asset) ==
    /\ HasGeometry(asset)
    /\ ~(/\ asset.geometry.type \in {"LineString", "MultiLineString"}
         /\ "assetTypeName" \in DOMAIN asset
         /\ asset.assetTypeName \in OVERHEAD_LINE_TYPES)
    /\ LET c == asset.geometry.coordinates
       IN  -18000 <= c[1] /\ c[2] <= 18000 /\ -9000 <= c[3] /\ c[3] <= 9000
    /\ MetricDistance(asset) <= Val(arg).max_distance_m

\* The record has a geometry that cannot be parsed.
Unparsable(asset) ==
    /\ "geometry" \in DOMAIN asset
    /\ DOMAIN asset.geometry # {}
    /\ asset.geometry.type \notin GeometryTypes

\* C19: find_nearby_assets returns exactly the assets that have a geometry,
\* are not line geometries of an overhead-line type (a point is never
\* excluded by its type), have bounds inside the WGS84 ranges and lie within
\* max_distance_m of the change polygon in the metric frame; the list is
\* sorted by ascending distance_meters.
C19_ExactlyTheNearbyAssets ==
    op = "find_nearby_assets" =>
        LET assets == Val(arg).assets
            out == Val(result).returned
            chosen == {i \in DOMAIN assets : Qualifies(assets[i])}
        IN  /\ "returned" \in DOMAIN Val(result)
            /\ Len(out) = Cardinality(chosen)
            /\ \A i \in chosen :
                  \E k \in DOMAIN out :
                      /\ out[k].asset_id = assets[i].assetId
                      /\ out[k].distance_meters = MetricDistance(assets[i])
            /\ \A k \in DOMAIN out :
                  \E i \in chosen : out[k].asset_id = assets[i].assetId
            /\ \A k \in DOMAIN out :
                  k + 1 \in DOMAIN out =>
                      out[k].distance_meters <= out[k + 1].distance_meters

\* C19 witness: an overhead line that overlaps the polygon is left out while
\* its tower, 1113 m away with max_distance_m = 1113, and a nearer shed are
\* returned, the shed first.
C19_Witness ==
    /\ op = "find_nearby_assets"
    /\ Val(arg).max_distance_m = 1113
    /\ \E i \in DOMAIN Val(arg).assets : Val(arg).assets[i].assetId = "cable"
    /\ Len(Val(result).returned) = 2
    /\ Val(result).returned[1].asset_id = "shed"
    /\ Val(result).returned[2].asset_id = "tower"
    /\ Val(result).returned[2].distance_meters = 1113

\* C20: a record whose geometry cannot be parsed is skipped: the call does
\* not fail, and it returns what it returns for the same list without that
\* record, distances and terrain fields included.
C20_BadRecordIsSkipped ==
    op = "find_nearby_assets" =>
        LET assets == Val(arg).assets
            good == SelectSeq(assets, LAMBDA a : ~Unparsable(a))
        IN  /\ "returned" \in DOMAIN Val(result)
            /\ \A k \in DOMAIN Val(result).returned :
                  Val(result).returned[k].asset_id # "broken"
            /\ Val(result)
                 = find_nearby_assets(Val(arg).change_polygon, good,
                                      Val(arg).max_distance_m,
                                      Val(arg).dem_data)

\* C20 witness: an unparsable record between two assets that are both
\* returned, with their terrain fields.
C20_Witness ==
    /\ op = "find_nearby_assets"
    /\ Len(Val(arg).assets) = 3
    /\ Unparsable(Val(arg).assets[2])
    /\ Val(arg).dem_data # None
    /\ Len(Val(result).returned) = 2
    /\ Val(result).returned[2].elevation_diff_m = Some(20)

\* The points of the two buckets that meet at the i-th threshold of a tier
\* list ordered from the most severe tier down.
MoreSevere(ths, i) == ths[i].points
LessSevere(ths, i) == IF i < Len(ths) THEN ths[i + 1].points ELSE 0

\* The factor call of the current state is on an input equal to a threshold
\* of the default tier list ths, read through the key k.
AtThreshold(method, ths, k, i) ==
    /\ op = method
    /\ i \in DOMAIN ths
    /\ (IF method = "_score_directional_slope"
        THEN Val(arg).elevation_diff_m = None /\ Val(arg).slope_deg = ths[i][k]
        ELSE Val(arg) = ths[i][k])

\* C24 as claimed: for Distance, NDVI drop, Area and base Slope an input
\* exactly equal to a tier threshold is awarded the points of the more severe
\* of the two adjacent buckets (for distance the closer one).
C24_TiesToMoreSevereBucket ==
    /\ \A i \in 1..4 :
          AtThreshold("_score_distance", DEFAULT_SCORING.distance.thresholds,
                      "distance_m", i)
            => Val(result).points
                 = MoreSevere(DEFAULT_SCORING.distance.thresholds, i)
    /\ \A i \in 1..4 :
          AtThreshold("_score_ndvi", DEFAULT_SCORING.ndvi_drop.thresholds,
                      "delta", i)
            => Val(result).points
                 = MoreSevere(DEFAULT_SCORING.ndvi_drop.thresholds, i)
    /\ \A i \in 1..4 :
          AtThreshold("_score_area", DEFAULT_SCORING.area.thresholds,
                      "area_m2", i)
            => Val(result).points
                 = MoreSevere(DEFAULT_SCORING.area.thresholds, i)
    /\ \A i \in 1..4 :
          AtThreshold("_score_directional_slope",
                      DEFAULT_SCORING.slope.thresholds, "slope_deg", i)
            => Val(result).points
                 = MoreSevere(DEFAULT_SCORING.slope.thresholds, i)

\* C24 amended: an input exactly equal to a tier threshold is awarded the
\* points of the more severe adjacent bucket for NDVI drop, Area and base
\* Slope, and the points of the less severe (farther) adjacent bucket for
\* Distance: exactly 100 m scores 21 and exactly 2500 m scores 0.
C24_TiesPerFactor ==
    /\ \A i \in 1..4 :
          AtThreshold("_score_distance", DEFAULT_SCORING.distance.thresholds,
                      "distance_m", i)
            => Val(result).points
                 = LessSevere(DEFAULT_SCORING.distance.thresholds, i)
    /\ \A i \in 1..4 :
          AtThreshold("_score_ndvi", DEFAULT_SCORING.ndvi_drop.thresholds,
                      "delta", i)
            => Val(result).points
                 = MoreSevere(DEFAULT_SCORING.ndvi_drop.thresholds, i)
    /\ \A i \in 1..4 :
          AtThreshold("_score_area", DEFAULT_SCORING.area.thresholds,
                      "area_m2", i)
            => Val(result).points
                 = MoreSevere(DEFAULT_SCORING.area.thresholds, i)
    /\ \A i \in 1..4 :
          AtThreshold("_score_directional_slope",
                      DEFAULT_SCORING.slope.thresholds, "slope_deg", i)
            => Val(result).points
                 = MoreSevere(DEFAULT_SCORING.slope.thresholds, i)

\* C24 witness: an area of exactly 50000 m2 scores the 15 points of the
\* largest tier.
C24_Witness ==
    op = "_score_area" /\ Val(arg) = 50000 /\ Val(result).points = 15

\* The base slope points of the default configuration.
BaseSlopePoints(slope_deg) ==
    IF slope_deg >= 30 THEN 10
    ELSE IF slope_deg >= 20 THEN 7
    ELSE IF slope_deg >= 15 THEN 5
    ELSE IF slope_deg >= 10 THEN 3
    ELSE 0

\* The current state is a _score_directional_slope call with an elevation
\* difference.
DirectionalCall ==
    op = "_score_directional_slope" /\ Val(arg).elevation_diff_m # None

\* The modifier (ten-thousandths) the default scorer applies in the current
\* _score_directional_slope call.
AppliedModifier ==
    directional_modifier(DefaultConfig.directional_slope,
                         Val(Val(arg).elevation_diff_m))

\* C25 as claimed: above 5 m the modifier is the linear function that is 1.5
\* at 5 m and 2.5 at 100 m, and 2.5 beyond; below -5 m it is the linear
\* function that is 0.9 at -5 m and 0.7 at -100 m, and 0.7 beyond.
C25_LinearFromThreshold ==
    DirectionalCall =>
        LET e == Val(Val(arg).elevation_diff_m)
            m == AppliedModifier
        IN  /\ (e > 5 /\ e <= 100) => (m - 15000) * 95 = 10000 * (e - 5)
            /\ e > 100 => m = 25000
            /\ (e < -5 /\ e >= -100) => (9000 - m) * 95 = 2000 * (-e - 5)
            /\ e < -100 => m = 7000

\* C25 amended: above 5 m the modifier is 1.5 + elevation_diff_m / 100 (the
\* line through 1.5 at 0 m, so 1.55 at the 5 m threshold), reaching 2.5 at
\* 100 m and staying there; below -5 m it is 0.9 - 0.2 * |elevation_diff_m|
\* / 100 (0.89 at the -5 m threshold), reaching the floor 0.7 at -100 m and
\* staying there; the points are floor(base * modifier) capped at 20.
C25_LinearFromZero ==
    DirectionalCall =>
        LET e == Val(Val(arg).elevation_diff_m)
            m == AppliedModifier
        IN  /\ (e > 5 /\ e <= 100) => m = 15000 + 100 * e
            /\ e > 100 => m = 25000
            /\ (e < -5 /\ e >= -100) => m = 9000 - 20 * (-e)
            /\ e < -100 => m = 7000
            /\ Val(result).points
                 = Min(20, (BaseSlopePoints(Val(arg).slope_deg) * m) \div 10000)

\* C25 witness: 10 m above the asset on a 30 degree slope the modifier is
\* 1.6 and the factor scores 16.
C25_Witness ==
    /\ DirectionalCall
    /\ Val(arg).slope_deg = 30
    /\ Val(Val(arg).elevation_diff_m) = 10
    /\ AppliedModifier = 16000
    /\ Val(result).points = 16

\* C26: when elevation_diff_m is None or lies in [-5, 5], the slope factor's
\* points are the unmodified base slope points (>= 30 deg -> 10, >= 20 -> 7,
\* >= 15 -> 5, >= 10 -> 3, else 0); in the None case the reason code is the
\* plain slope code, not a direction code.
C26_LevelOrUnknownIsBase ==
    op = "_score_directional_slope" =>
        LET e == Val(arg).elevation_diff_m
            slope_deg == Val(arg).slope_deg
        IN  /\ (e = None \/ (Val(e) >= -5 /\ Val(e) <= 5))
                 => Val(result).points = BaseSlopePoints(slope_deg)
            /\ e = None
                 => /\ Val(result).name = "Slope"
                    /\ Val(result).reason_code
                         = (IF slope_deg >= 30 THEN "SLOPE_GT_30DEG"
                            ELSE IF slope_deg >= 20 THEN "SLOPE_GT_20DEG"
                            ELSE IF slope_deg >= 15 THEN "SLOPE_GT_15DEG"
                            ELSE IF slope_deg >= 10 THEN "SLOPE_GT_10DEG"
                            ELSE "SLOPE_FLAT")

\* C26 witness: exactly 5 m above the asset on a 22 degree slope the factor
\* keeps the 7 base points, as a level slope.
C26_Witness ==
    /\ DirectionalCall
    /\ Val(arg).slope_deg = 22
    /\ Val(Val(arg).elevation_diff_m) = 5
    /\ Val(result).points = 7
    /\ Val(result).reason_code = "SLOPE_LEVEL"

\* C27: under the default configuration every additive factor returned by
\* calculate_risk_score has 0 <= points <= max_points, and the Slope +
\* Direction points are floor(base_points * modifier) capped at 20.
C27_AdditivePointsWithinMax ==
    Returned =>
        LET fs == Val(result).factors
        IN  /\ \A i \in DOMAIN fs :
                  fs[i].name \in AdditiveNames
                    => 0 <= fs[i].points /\ fs[i].points <= fs[i].max_points
            /\ HasFactor(fs, "Slope + Direction")
                 => FactorPoints(fs, "Slope + Direction")
                      = Min(20,
                            (BaseSlopePoints(Val(change.slope_degree_mean))
                               * directional_modifier(
                                     DefaultConfig.directional_slope,
                                     Val(proximity.elevation_diff_m)))
                            \div 10000)

\* C27 witness: 100 m above the asset on a 30 degree slope the product 25 is
\* capped at the 20 points of the factor.
C27_Witness ==
    /\ Returned
    /\ change.slope_degree_mean = Some(30)
    /\ proximity.elevation_diff_m = Some(100)
    /\ HasFactor(Val(result).factors, "Slope + Direction")
    /\ FactorPoints(Val(result).factors, "Slope + Direction") = 20

\* The cell of dem nearest to a point (the right one of two equally near).
NearestCell(dem, point) ==
    CHOOSE c \in DOMAIN dem :
        /\ \A d \in DOMAIN dem : Abs(point.x - c) <= Abs(point.x - d)
        /\ \A d \in DOMAIN dem :
              Abs(point.x - d) = Abs(point.x - c) => d <= c

InsideGrid(point) == GridMinX <= point.x /\ point.x <= GridMaxX

C22_NoneOutsideGrid ==
    op = "sample_terrain_at_point" =>
        LET dem == Val(arg).dem
            point == Val(arg).point
            cell == dem[NearestCell(dem, point)]
        IN  IF InsideGrid(point)
            THEN result = (IF cell = None THEN None
                           ELSE Some([elevation_m |-> Val(cell)]))
            ELSE result = None

\* The cells of the 3x3 neighbourhood of a cell that lie on the raster.
Neighbourhood(c) ==
    {n \in GridCells : Abs(n[1] - c[1]) <= 1 /\ Abs(n[2] - c[2]) <= 1}

\* C28: calculate_slope_aspect reports a missing slope and a missing aspect
\* at every cell whose elevation is missing, and it reports no slope or
\* aspect at a cell with a missing elevation in its 3x3 neighbourhood, where
\* the value could only come from a substitute for the missing elevation.
C28_MissingPropagates ==
    op = "calculate_slope_aspect" =>
        \A c \in GridCells :
            /\ Val(arg)[c] = None
                 => Val(result)[c].slope = None /\ Val(result)[c].aspect = None
            /\ (Val(result)[c].slope # None \/ Val(result)[c].aspect # None)
                 => \A n \in Neighbourhood(c) : Val(arg)[n] # None

\* C23: when no pixel satisfies diff < threshold, detect_changes returns
\* zero polygons and every run statistic (changed-pixel count and percentage,
\* mean, min and max difference) is 0.
C23_EmptyMaskZeroStatistics ==
    (op = "detect_changes"
       /\ \A i \in DOMAIN Val(result).change_mask :
             Val(result).change_mask[i] = 0)
      => /\ Val(result).polygons = <<>>
         /\ Val(result).stats.changed_pixels = 0
         /\ Val(result).stats.change_percent = <<0, 1>>
         /\ Val(result).stats.mean_diff = Some(<<0, 1>>)
         /\ Val(result).stats.min_diff = Some(<<0, 1>>)
         /\ Val(result).stats.max_diff = Some(<<0, 1>>)

\* The statuses that reached the API so far, in order.
SentStatuses ==
    LET updates == SelectSeq(result.api, LAMBDA r : r.status # None)
    IN  [i \in DOMAIN updates |-> Val(updates[i].status)]

\* The process command ended through sys.exit(1).
ProcessFailed == op = "exit"

\* C29: with --dry-run the process command performs no mutating API call,
\* whatever the other options: no run is created or updated and no change
\* polygons or risk events are saved.
C29_DryRunMutatesNothing ==
    arg.dry_run => result.api = <<>>

\* C30: with a run id the statuses sent to the API are strictly increasing
\* (FETCHING_IMAGERY, CALCULATING_NDVI, DETECTING_CHANGES, SCORING_RISK,
\* COMPLETED, none repeated or out of order), a failed execution has sent
\* FAILED exactly once and as its last status, and FAILED is never sent
\* after COMPLETED.
C30_StatusOrder ==
    arg.run_id # None =>
        LET sent == SentStatuses
        IN  /\ \A i, j \in DOMAIN sent : i < j => sent[i] < sent[j]
            /\ ~(\E i, j \in DOMAIN sent :
                    /\ sent[i] = ProcessingStatus.COMPLETED
                    /\ sent[j] = ProcessingStatus.FAILED)
            /\ ProcessFailed
                 => /\ sent # <<>>
                    /\ sent[Len(sent)] = ProcessingStatus.FAILED
                    /\ Cardinality({i \in DOMAIN sent :
                                       sent[i] = ProcessingStatus.FAILED}) = 1

====
